---- MODULE Spec2Model ----
(***************************************************************************)
(* A model of the template-driven invoice extraction engine:               *)
(*   infrastructure/nlp/TemplateInvoiceExtractor.py  (registry, matcher,   *)
(*                                                    extract)             *)
(*   models/TemplateGenerator.py                     (template generator)  *)
(*                                                                         *)
(* Strings are sequences of one-character strings, so that lower-casing    *)
(* and the substring test of the direct hit are computed, not assumed.     *)
(* An Optional value is a sequence of length 0 (None) or 1.                *)
(***************************************************************************)
EXTENDS Integers, Sequences, FiniteSets, TLC

VARIABLES
    dirExists,   \* os.path.exists(template_dir)
    storage,     \* the *.yaml files of template_dir, in glob order
    templates,   \* self.templates: insertion-ordered dict, as a sequence of entries
    rpc,         \* position of a reload_templates() call
    rfiles,      \* _load_templates: files the glob has still to yield
    rlocal,      \* _load_templates: the local dict `templates` being built
    rerr,        \* the exception that left _load_templates, "none" when it returned
    rold,        \* history: self.templates when the running (or last) reload began
    gres,        \* a direct generate_template call: "none", or how it ended
    gdoc,        \* history: what the service answered in that call (Optional)
    epc,         \* position of an extract_invoice_data() call
    text,        \* its argument text (what the code reads of it)
    autoGen,     \* its argument auto_generate
    identified,  \* local identified_issuer (Optional)
    matched,     \* local matched_template (Optional)
    firstMatch,  \* what the first _match_template call returned (Optional)
    result,      \* the returned dictionary
    eerr,        \* the exception that left the call, "none" when it returned
    calls,       \* collaborator calls made by the running extract call, in order
    reads,       \* the values of self.templates the running extract call has read
    fpc,         \* a call of one of the helper methods: "idle", "call", "returned", "raised"
    fn,          \* the method called
    farg,        \* its arguments
    fret         \* what it returned, or the exception it raised

vars == <<dirExists, storage, templates, rpc, rfiles, rlocal, rerr, rold, gres, gdoc,
          epc, text, autoGen, identified, matched, firstMatch, result, eerr, calls, reads,
          fpc, fn, farg, fret>>

regVars == <<dirExists, storage, templates, rpc, rfiles, rlocal, rerr, rold, gres, gdoc>>
extVars == <<epc, text, autoGen, identified, matched, firstMatch, result, eerr, calls, reads>>
fnVars == <<fpc, fn, farg, fret>>

---------------------------------------------------------------------------
(* Bounds of the model *)

\* at most this many files in the template directory
MaxFiles == 2

---------------------------------------------------------------------------
(* Strings *)

None == <<>>
Some(x) == <<x>>

\* str.lower(), on the letters the model uses
LowerChar(c) ==
    CASE c = "A" -> "a"
      [] c = "B" -> "b"
      [] c = "C" -> "c"
      [] OTHER -> c

Lower(s) == [i \in 1..Len(s) |-> LowerChar(s[i])]

\* Python's `s in t` on strings
IsSubstr(s, t) ==
    \E i \in 0..(Len(t) - Len(s)) : SubSeq(t, i + 1, i + Len(s)) = s

\* re.sub(r'[^a-zA-Z0-9]+', '_', ...) maps every run of other characters to one '_'
IsAlnum(c) == c \in {"a", "b", "c", "A", "B", "C"}

RECURSIVE ReplaceRuns(_)
ReplaceRuns(s) ==
    IF s = <<>> THEN <<>>
    ELSE IF IsAlnum(s[1]) THEN <<s[1]>> \o ReplaceRuns(Tail(s))
    ELSE IF Len(s) > 1 /\ ~IsAlnum(s[2]) THEN ReplaceRuns(Tail(s))
    ELSE <<"_">> \o ReplaceRuns(Tail(s))

RECURSIVE StripUnderscores(_)
StripUnderscores(s) ==
    IF s = <<>> THEN <<>>
    ELSE IF s[1] = "_" THEN StripUnderscores(Tail(s))
    ELSE IF s[Len(s)] = "_" THEN StripUnderscores(SubSeq(s, 1, Len(s) - 1))
    ELSE s

UnknownCompany == <<"unknown_company">>

SanitizeFilename(name) ==
    LET safe == StripUnderscores(ReplaceRuns(Lower(name)))
    IN  IF safe # <<>> THEN safe ELSE UnknownCompany

---------------------------------------------------------------------------
(* Template documents *)

\* What yaml.safe_load gives for a file.  kind: "unparsable" (safe_load
\* raises), "null" (an empty document), "nonmap" (a list or a scalar) or
\* "map"; has: the keys of a mapping; issuerIsStr: FALSE for `issuer: 42`.
Doc(file, kind, has, issuerIsStr, issuer, keywords) ==
    [file |-> file, kind |-> kind, has |-> has, issuerIsStr |-> issuerIsStr,
     issuer |-> issuer, keywords |-> keywords]

AllKeys == {"issuer", "keywords", "fields"}

DocBroken   == Doc(<<"x">>, "unparsable", {}, FALSE, <<>>, <<>>)
DocNoIssuer == Doc(<<"y">>, "map", {"keywords", "fields"}, FALSE, <<>>, <<"k1">>)
DocAcme     == Doc(<<"a">>, "map", AllKeys, TRUE, <<"A">>, <<"k1">>)
DocAcmeTwo  == Doc(<<"a", "_", "b">>, "map", AllKeys, TRUE, <<"a">>, <<"k1", "k2">>)
DocNoKw     == Doc(<<"a", "b">>, "map", {"issuer", "fields"}, TRUE, <<"a", "b">>, <<>>)
DocEmptyKw  == Doc(<<"b">>, "map", AllKeys, TRUE, <<"B">>, <<>>)
DocNumIssuer == Doc(<<"z">>, "map", AllKeys, FALSE, <<>>, <<"k2">>)

\* the files a template directory may hold
Docs == {DocBroken, DocNoIssuer, DocAcme, DocAcmeTwo, DocNoKw, DocEmptyKw, DocNumIssuer}

\* bool(template): None, an empty mapping and an empty list are falsy
Truthy(doc) == doc.kind \in {"map", "nonmap"} /\ (doc.kind = "map" => doc.has # {})

---------------------------------------------------------------------------
(* The registry: _load_templates *)

\* An insertion-ordered dict is a sequence of entries with distinct keys
Entry(k, t) == [key |-> k, tpl |-> t]

Keys(reg) == {reg[i].key : i \in DOMAIN reg}

\* list(dict.keys())
KeyList(reg) == [i \in DOMAIN reg |-> reg[i].key]

\* a variant of Put: the template an existing key has is kept
PutKeepFirst(reg, k, t) ==
    IF k \in Keys(reg) THEN reg ELSE Append(reg, Entry(k, t))

\* templates[issuer] = template: an existing key keeps its position
Put(reg, k, t) ==
    IF k \in Keys(reg)
    THEN [i \in DOMAIN reg |-> IF reg[i].key = k THEN Entry(k, t) ELSE reg[i]]
    ELSE Append(reg, Entry(k, t))

\* lines 32-39, the try body for one file: "YAMLError" when safe_load
\* raises, "AttributeError" when the issuer has no .lower(), "skip" for a
\* falsy document or one without 'issuer', "index" otherwise
ReadOutcome(doc) ==
    IF doc.kind = "unparsable" THEN "YAMLError"
    ELSE IF Truthy(doc) /\ "issuer" \in doc.has
         THEN IF doc.issuerIsStr THEN "index" ELSE "AttributeError"
         ELSE "skip"

Exceptions == {"YAMLError", "AttributeError", "FileNotFoundError"}

\* a variant of Handles: only the YAML error is caught
HandlesYamlOnly(exc) == exc = "YAMLError"

\* line 40, except Exception: every exception of the try body is caught
Handles(exc) == exc \in Exceptions

\* lines 31-41, one iteration from the dict `local`: the dict after it and
\* the exception that leaves the loop, if any
LoadOutcome(local, outcome, doc) ==
    [reg |-> IF outcome = "index" THEN Put(local, Lower(doc.issuer), doc) ELSE local,
     error |-> IF outcome \in Exceptions /\ ~Handles(outcome) THEN outcome ELSE "none"]

LoadOne(local, doc) == LoadOutcome(local, ReadOutcome(doc), doc)

RECURSIVE LoadFrom(_, _)
LoadFrom(local, files) ==
    IF files = <<>> THEN [reg |-> local, error |-> "none"]
    ELSE LET one == LoadOne(local, Head(files))
         IN  IF one.error # "none" THEN one ELSE LoadFrom(one.reg, Tail(files))

\* _load_templates run to its end over one directory state
LoadTemplates(exists, files) ==
    IF ~exists THEN [reg |-> <<>>, error |-> "none"] ELSE LoadFrom(<<>>, files)

FileNames(files) == {files[i].file : i \in DOMAIN files}

FileNameList(files) == [i \in DOMAIN files |-> files[i].file]

\* the file of that name, as a 0/1 sequence (open() fails when it is gone)
Lookup(files, name) ==
    LET hit == {i \in DOMAIN files : files[i].file = name}
    IN  IF hit = {} THEN None ELSE Some(files[CHOOSE i \in hit : TRUE])

\* writing a file: an existing name is overwritten, a new one is added
WriteFile(files, doc) ==
    IF doc.file \in FileNames(files)
    THEN [i \in DOMAIN files |-> IF files[i].file = doc.file THEN doc ELSE files[i]]
    ELSE Append(files, doc)

RemoveAt(files, i) == SubSeq(files, 1, i - 1) \o SubSeq(files, i + 1, Len(files))

\* directory contents: at most MaxFiles files with distinct names
StoragesOf(D) ==
    UNION {{f \in [1..n -> D] : \A i, j \in 1..n : i # j => f[i].file # f[j].file}
           : n \in 0..MaxFiles}

Storages == StoragesOf(Docs)

---------------------------------------------------------------------------
(* The template generator: models/TemplateGenerator.py *)

\* a variant of ParseAndValidate: the check for 'fields' is missing
ParseAndValidateNoFields(doc) ==
    IF doc.kind # "map" THEN "ValueError"
    ELSE IF "issuer" \notin doc.has THEN "ValueError"
    ELSE IF "keywords" \notin doc.has THEN "ValueError"
    ELSE "ok"

\* _parse_and_validate_template, lines 109-128: the error it raises, or "ok"
ParseAndValidate(doc) ==
    IF doc.kind = "unparsable" THEN "ValueError"
    ELSE IF doc.kind # "map" THEN "ValueError"
    ELSE IF "issuer" \notin doc.has THEN "ValueError"
    ELSE IF "keywords" \notin doc.has THEN "ValueError"
    ELSE IF "fields" \notin doc.has THEN "ValueError"
    ELSE "ok"

\* What the text-generation service may answer, as yaml.safe_load reads it
\* (the file name is given by generate_template)
GenGood      == Doc(<<>>, "map", AllKeys, TRUE, <<"B", " ", "c">>, <<"k2">>)
GenNoFields  == Doc(<<>>, "map", {"issuer", "keywords"}, TRUE, <<"C">>, <<"k1">>)
GenNoKw      == Doc(<<>>, "map", {"issuer", "fields"}, TRUE, <<"C">>, <<>>)
GenNoIssuer  == Doc(<<>>, "map", {"keywords", "fields"}, FALSE, <<>>, <<"k1">>)
GenList      == Doc(<<>>, "nonmap", {}, FALSE, <<>>, <<>>)
GenNull      == Doc(<<>>, "null", {}, FALSE, <<>>, <<>>)
GenGarbage   == Doc(<<>>, "unparsable", {}, FALSE, <<>>, <<>>)
GenNumIssuer == Doc(<<>>, "map", AllKeys, FALSE, <<>>, <<"k1">>)

LLMDocs == {GenGood, GenNoFields, GenNoKw, GenNoIssuer, GenList, GenNull,
            GenGarbage, GenNumIssuer}

\* _call_llm, lines 158-173: the shipped body raises NotImplementedError; with
\* the service wired in (the commented lines 161-168) it returns its answer
LLMOutcomes == {[raised |-> TRUE, doc |-> GenNull]}
               \cup {[raised |-> FALSE, doc |-> d] : d \in LLMDocs}

\* generate_template(invoice_text), lines 18-39, on one answer of the
\* service: [error, exists, files], the directory as the call leaves it
GenerateTemplateBody(llm, exists, files) ==
    IF llm.raised
    THEN [error |-> "NotImplementedError", exists |-> exists, files |-> files]
    ELSE IF ParseAndValidate(llm.doc) # "ok"
    THEN [error |-> ParseAndValidate(llm.doc), exists |-> exists, files |-> files]
    ELSE IF ~llm.doc.issuerIsStr
    THEN [error |-> "AttributeError", exists |-> exists, files |-> files]
    ELSE [error |-> "ok", exists |-> TRUE,
          files |-> WriteFile(files, [llm.doc EXCEPT !.file = SanitizeFilename(llm.doc.issuer)])]

\* the keyword parameters generate_template accepts (line 18)
GenerateTemplateParams == {"invoice_text"}

\* a call generator.generate_template(**kwargs): an unknown keyword is a TypeError
CallGenerateTemplate(kwargs, llm, exists, files) ==
    IF ~(kwargs \subseteq GenerateTemplateParams)
    THEN [error |-> "TypeError", exists |-> exists, files |-> files]
    ELSE GenerateTemplateBody(llm, exists, files)

---------------------------------------------------------------------------
(* The matcher: _match_template, lines 183-283 *)

\* the keywords the templates of the model use
Keywords == {"k1", "k2"}

\* What _match_template reads of the text, for one keyword:
\*   present    keyword_lower in text_lower                     (line 227)
\*   recipient  the recipient-context pattern matches           (lines 236-243)
\*   top        keyword_lower in top_section                    (line 252)
\*   ctx        one of the issuer-context patterns matches      (lines 256-262)
\* Each of the last three contains the keyword, so implies present.
Features ==
    {f \in [present : BOOLEAN, recipient : BOOLEAN, top : BOOLEAN, ctx : BOOLEAN] :
        (f.recipient \/ f.top \/ f.ctx) => f.present}

\* the fields a template's patterns are applied for (lines 318-345), of those
\* that count for the confidence
PatternFields == {"rechnungsnummer", "rechnungsbetrag", "rechnungsdatum",
                  "faelligkeitsdatum", "leistungen"}

\* What the code reads of a text: kw, the features of each keyword, and
\* found, the pattern fields that come out non-empty of it
Texts == [kw : [Keywords -> Features], found : SUBSET PatternFields]

BaseScore == 1
RecipientPenalty == 5
TopBonus == 3
IssuerContextBonus == 4
Threshold == 2

\* a variant of KeywordsOf: a template without the key gets a keyword
KeywordsOfDefault(tpl) == IF "keywords" \in tpl.has THEN tpl.keywords ELSE <<"k1">>

\* template.get('keywords', [])
KeywordsOf(tpl) == IF "keywords" \in tpl.has THEN tpl.keywords ELSE <<>>

\* a variant of ScoreFrom: after the penalty the bonuses are still added
RECURSIVE ScoreFromNoSkip(_, _, _, _)
ScoreFromNoSkip(kws, txt, score, nmatched) ==
    IF kws = <<>> THEN [score |-> score, matched |-> nmatched]
    ELSE LET f == txt.kw[Head(kws)]
         IN  IF ~f.present
             THEN ScoreFromNoSkip(Tail(kws), txt, score, nmatched)
             ELSE ScoreFromNoSkip(Tail(kws), txt,
                                  score + BaseScore
                                        - (IF f.recipient THEN RecipientPenalty ELSE 0)
                                        + (IF f.top THEN TopBonus ELSE 0)
                                        + (IF f.ctx THEN IssuerContextBonus ELSE 0),
                                  nmatched + 1)

\* lines 224-264: the loop over the keywords, from (score, matched_keywords)
RECURSIVE ScoreFrom(_, _, _, _)
ScoreFrom(kws, txt, score, nmatched) ==
    IF kws = <<>> THEN [score |-> score, matched |-> nmatched]
    ELSE LET f == txt.kw[Head(kws)]
         IN  IF ~f.present
             THEN ScoreFrom(Tail(kws), txt, score, nmatched)
             ELSE IF f.recipient
             THEN ScoreFrom(Tail(kws), txt, score + BaseScore - RecipientPenalty,
                            nmatched + 1)
             ELSE ScoreFrom(Tail(kws), txt,
                            score + BaseScore
                                  + (IF f.top THEN TopBonus ELSE 0)
                                  + (IF f.ctx THEN IssuerContextBonus ELSE 0),
                            nmatched + 1)

\* a variant of Better: a template of the same score replaces the best
BetterOrEqual(num, den, bestNum, bestDen) == num * bestDen >= bestNum * den

\* line 273, normalized_score > best_score.  A normalized score
\* score * (matched / total) is kept as the fraction num / den; for up to 4
\* keywords the floating-point comparisons of the code agree with the exact ones.
Better(num, den, bestNum, bestDen) == num * bestDen > bestNum * den

\* a variant of Accepted: a score of exactly 2.0 is turned away
AcceptedStrict(num, den) == num > Threshold * den

\* line 278, best_score >= 2.0
Accepted(num, den) == num >= Threshold * den

\* lines 215-275: the loop over the registry, from (best_match, best_score)
RECURSIVE SearchFrom(_, _, _)
SearchFrom(entries, txt, best) ==
    IF entries = <<>> THEN best
    ELSE LET kws == KeywordsOf(Head(entries).tpl)
             s   == ScoreFrom(kws, txt, 0, 0)
         IN  IF kws = <<>>
             THEN SearchFrom(Tail(entries), txt, best)
             ELSE IF s.score > 0 /\ s.matched > 0
                     /\ Better(s.score * s.matched, Len(kws), best.num, best.den)
             THEN SearchFrom(Tail(entries), txt,
                             [tpl |-> Some(Head(entries).tpl),
                              num |-> s.score * s.matched, den |-> Len(kws)])
             ELSE SearchFrom(Tail(entries), txt, best)

\* lines 211-283: the scored search and its acceptance
ScoredSearch(reg, txt) ==
    LET best == SearchFrom(reg, txt, [tpl |-> None, num |-> 0, den |-> 1])
    IN  IF best.tpl # None /\ Accepted(best.num, best.den) THEN best.tpl ELSE None

\* bool(identified_issuer): None and '' are falsy
IssuerGiven(ident) == ident # None /\ ident[1] # <<>>

\* a variant of DirectTest: only a key contained in the issuer hits
DirectTestOneWay(key, issuerLower) == IsSubstr(key, issuerLower)

\* line 207
DirectTest(key, issuerLower) == IsSubstr(key, issuerLower) \/ IsSubstr(issuerLower, key)

\* lines 204-209: the first registry entry, in order, the issuer hits
DirectHit(reg, ident) ==
    IF ~IssuerGiven(ident) THEN None
    ELSE LET hits == {i \in DOMAIN reg : DirectTest(reg[i].key, Lower(ident[1]))}
         IN  IF hits = {} THEN None
             ELSE Some(reg[CHOOSE i \in hits : \A j \in hits : i <= j].tpl)

\* _match_template
MatchTemplate(reg, txt, ident) ==
    IF DirectHit(reg, ident) # None THEN DirectHit(reg, ident) ELSE ScoredSearch(reg, txt)

\* What _identify_issuer (lines 98-181) may return: nothing, a name read off
\* the text (strategies 1-3), or a key of the registry (strategy 4)
TextIssuers == {<<"A">>, <<"A", "B">>, <<"C">>}

IdentifyIssuer(reg) == {None} \cup {Some(n) : n \in TextIssuers \cup Keys(reg)}

---------------------------------------------------------------------------
(* Initial states: an extractor just constructed over some directory *)

\* no call is running: no text
NoText ==
    [kw |-> [k \in Keywords |-> [present |-> FALSE, recipient |-> FALSE,
                                 top |-> FALSE, ctx |-> FALSE]],
     found |-> {}]

\* the fields of a result that count for the confidence (lines 516-519)
RequiredFields == {"rechnungsnummer", "rechnungssteller", "rechnungsbetrag"}
OptionalFields == {"rechnungsdatum", "faelligkeitsdatum", "leistungen"}

\* A result dictionary: present is the set of counted fields with a truthy
\* value, confidence is in hundredths, available_templates is None when the
\* dictionary has no such key
ResultDict(method, used, conf, avail, issuer, present) ==
    [extraction_method |-> method, template_used |-> used, confidence |-> conf,
     available_templates |-> avail, rechnungssteller |-> issuer, present |-> present]

NoResult == ResultDict("", None, 0, None, None, {})

\* no helper method is called on its own
InitFn ==
    /\ fpc = "idle"
    /\ fn = ""
    /\ farg = None
    /\ fret = None

InitExtract ==
    /\ epc = "idle"
    /\ text = NoText
    /\ autoGen = FALSE
    /\ identified = None
    /\ matched = None
    /\ firstMatch = None
    /\ result = NoResult
    /\ eerr = "none"
    /\ calls = <<>>
    /\ reads = <<>>

\* __init__, lines 19-20, over a directory of the files D
InitOver(D) ==
    /\ dirExists \in BOOLEAN
    /\ storage \in (IF dirExists THEN StoragesOf(D) ELSE {<<>>})
    /\ templates = LoadTemplates(dirExists, storage).reg
    /\ rerr = LoadTemplates(dirExists, storage).error
    /\ rpc = "idle"
    /\ rfiles = <<>>
    /\ rlocal = <<>>
    /\ rold = templates
    /\ gres = "none"
    /\ gdoc = None
    /\ InitExtract
    /\ InitFn

Init == InitOver(Docs)

---------------------------------------------------------------------------
(* The environment: files appear in and vanish from the directory.  The    *)
(* directory is taken not to change while a load is reading it.            *)

EnvAddFile(D) ==
    /\ dirExists
    /\ rpc = "idle"
    /\ Len(storage) < MaxFiles
    /\ \E d \in D :
         /\ d.file \notin FileNames(storage)
         /\ storage' = Append(storage, d)
    /\ UNCHANGED <<dirExists, templates, rpc, rfiles, rlocal, rold, gres, gdoc, rerr>>
    /\ UNCHANGED extVars
    /\ UNCHANGED fnVars

EnvRemoveFile ==
    /\ rpc = "idle"
    /\ \E i \in DOMAIN storage : storage' = RemoveAt(storage, i)
    /\ UNCHANGED <<dirExists, templates, rpc, rfiles, rlocal, rold, gres, gdoc, rerr>>
    /\ UNCHANGED extVars
    /\ UNCHANGED fnVars

---------------------------------------------------------------------------
(* reload_templates, lines 534-539, calling _load_templates, lines 22-44 *)

\* a variant of ReloadBegin: the load starts from the registry's entries
ReloadBeginCarryOver ==
    /\ rpc = "idle"
    /\ rlocal' = templates
    /\ rfiles' = (IF dirExists THEN FileNameList(storage) ELSE <<>>)
    /\ rpc' = (IF dirExists THEN "loading" ELSE "install")
    /\ rold' = templates
    /\ rerr' = "none"
    /\ UNCHANGED <<dirExists, storage, templates, gres, gdoc>>
    /\ UNCHANGED extVars
    /\ UNCHANGED fnVars

\* lines 24-30: the local dict is created, the directory is tested and listed
ReloadBegin ==
    /\ rpc = "idle"
    /\ rlocal' = <<>>
    /\ rfiles' = (IF dirExists THEN FileNameList(storage) ELSE <<>>)
    /\ rpc' = (IF dirExists THEN "loading" ELSE "install")
    /\ rold' = templates
    /\ rerr' = "none"
    /\ UNCHANGED <<dirExists, storage, templates, gres, gdoc>>
    /\ UNCHANGED extVars
    /\ UNCHANGED fnVars

\* a variant of ReloadFile: the entry is put into self.templates itself
ReloadFileInPlace ==
    /\ rpc = "loading"
    /\ rfiles # <<>>
    /\ LET f == Lookup(storage, Head(rfiles))
           one == IF f = None THEN LoadOutcome(rlocal, "FileNotFoundError", DocBroken)
                  ELSE LoadOne(rlocal, f[1])
       IN  /\ rlocal' = one.reg
           /\ templates' = one.reg
           /\ rerr' = one.error
           /\ rpc' = (IF one.error = "none" THEN "loading" ELSE "raised")
    /\ rfiles' = Tail(rfiles)
    /\ UNCHANGED <<dirExists, storage, rold, gres, gdoc>>
    /\ UNCHANGED extVars
    /\ UNCHANGED fnVars

\* lines 30-41, one iteration: the next listed file is opened and read; a
\* file that is gone raises in open() and is skipped like any other error
ReloadFile ==
    /\ rpc = "loading"
    /\ rfiles # <<>>
    /\ LET f == Lookup(storage, Head(rfiles))
           one == IF f = None THEN LoadOutcome(rlocal, "FileNotFoundError", DocBroken)
                  ELSE LoadOne(rlocal, f[1])
       IN  /\ rlocal' = one.reg
           /\ rerr' = one.error
           /\ rpc' = (IF one.error = "none" THEN "loading" ELSE "raised")
    /\ rfiles' = Tail(rfiles)
    /\ UNCHANGED <<dirExists, storage, templates, rold, gres, gdoc>>
    /\ UNCHANGED extVars
    /\ UNCHANGED fnVars

\* line 44: the loop is over, _load_templates returns its dict
ReloadReturn ==
    /\ rpc = "loading"
    /\ rfiles = <<>>
    /\ rpc' = "install"
    /\ UNCHANGED <<dirExists, storage, templates, rfiles, rlocal, rold, gres, gdoc, rerr>>
    /\ UNCHANGED extVars
    /\ UNCHANGED fnVars

\* line 539: self.templates = <the returned dict>
ReloadInstall ==
    /\ rpc = "install"
    /\ templates' = rlocal
    /\ rpc' = "idle"
    /\ UNCHANGED <<dirExists, storage, rfiles, rlocal, rold, gres, gdoc, rerr>>
    /\ UNCHANGED extVars
    /\ UNCHANGED fnVars

---------------------------------------------------------------------------
(* A direct call of TemplateGenerator.generate_template(invoice_text) *)

GenerateTemplate ==
    /\ gres = "none"
    /\ rpc = "idle"
    /\ \E llm \in LLMOutcomes :
         LET r == CallGenerateTemplate({"invoice_text"}, llm, dirExists, storage)
         IN  /\ Len(r.files) <= MaxFiles
             /\ gres' = r.error
             /\ gdoc' = (IF llm.raised THEN None ELSE Some(llm.doc))
             /\ dirExists' = r.exists
             /\ storage' = r.files
    /\ UNCHANGED <<templates, rpc, rfiles, rlocal, rold, rerr>>
    /\ UNCHANGED extVars
    /\ UNCHANGED fnVars

\* the caller has the outcome
GenerateReturn ==
    /\ gres # "none"
    /\ gres' = "none"
    /\ UNCHANGED <<dirExists, storage, templates, rpc, rfiles, rlocal, rold, gdoc, rerr>>
    /\ UNCHANGED extVars
    /\ UNCHANGED fnVars

NextRegistry ==
    \/ EnvAddFile(Docs)
    \/ EnvRemoveFile
    \/ ReloadBegin
    \/ ReloadFile
    \/ ReloadReturn
    \/ ReloadInstall

SpecRegistry == Init /\ [][NextRegistry]_vars

NextGenerator ==
    \/ GenerateTemplate
    \/ GenerateReturn
    \/ ReloadBegin
    \/ ReloadFile
    \/ ReloadReturn
    \/ ReloadInstall

SpecGenerator == Init /\ [][NextGenerator]_vars

---------------------------------------------------------------------------
(* extract_invoice_data, lines 46-96 *)

\* n / d rounded to the nearest integer
RoundDiv(n, d) == (2 * n + d) \div (2 * d)

\* _calculate_confidence, lines 516-532, in hundredths:
\* round(0.7 * r/3 + 0.3 * o/3, 2)
CalculateConfidence(present) ==
    LET r == Cardinality(present \cap RequiredFields)
        o == Cardinality(present \cap OptionalFields)
    IN  RoundDiv(70 * r * Cardinality(OptionalFields) + 30 * o * Cardinality(RequiredFields),
                 Cardinality(RequiredFields) * Cardinality(OptionalFields))

\* one read of self.templates: the dict it gives, and (history) whether a
\* reload was running
Read(reg) == [seen |-> reg, reloading |-> rpc # "idle"]

\* The call begins: the caller gives a text and auto_generate
ExtractCall(T) ==
    /\ epc \in {"idle", "done", "raised"}
    /\ text' \in T
    /\ autoGen' \in BOOLEAN
    /\ epc' = "identify"
    /\ identified' = None
    /\ matched' = None
    /\ firstMatch' = None
    /\ result' = NoResult
    /\ eerr' = "none"
    /\ calls' = <<>>
    /\ reads' = <<>>
    /\ UNCHANGED regVars
    /\ UNCHANGED fnVars

\* line 58, _identify_issuer: a name read off the text, or strategy 4, which
\* reads the registry's keys and gives one of them or nothing
ExtractIdentify ==
    /\ epc = "identify"
    /\ \/ /\ identified' \in {Some(n) : n \in TextIssuers}
          /\ reads' = reads
       \/ /\ identified' \in {None} \cup {Some(k) : k \in Keys(templates)}
          /\ reads' = Append(reads, Read(templates))
    /\ epc' = "direct"
    /\ UNCHANGED regVars
    /\ UNCHANGED fnVars
    /\ UNCHANGED <<text, autoGen, matched, firstMatch, result, eerr, calls>>

\* a variant of ExtractDirect: without an issuer the match gives up
ExtractDirectNeedsIssuer ==
    /\ epc = "direct"
    /\ LET d == DirectHit(templates, identified)
       IN  /\ reads' = (IF IssuerGiven(identified) THEN Append(reads, Read(templates)) ELSE reads)
           /\ matched' = d
           /\ firstMatch' = d
           /\ epc' = (IF d # None THEN "extract"
                      ELSE IF IssuerGiven(identified) THEN "scored" ELSE "nomatch")
    /\ UNCHANGED regVars
    /\ UNCHANGED fnVars
    /\ UNCHANGED <<text, autoGen, identified, result, eerr, calls>>

\* line 63, _match_template, lines 199-209: the direct hit
ExtractDirect ==
    /\ epc = "direct"
    /\ LET d == DirectHit(templates, identified)
       IN  /\ reads' = (IF IssuerGiven(identified) THEN Append(reads, Read(templates)) ELSE reads)
           /\ matched' = d
           /\ firstMatch' = d
           /\ epc' = (IF d # None THEN "extract" ELSE "scored")
    /\ UNCHANGED regVars
    /\ UNCHANGED fnVars
    /\ UNCHANGED <<text, autoGen, identified, result, eerr, calls>>

\* a variant of ExtractScored: the registry is loaded anew before the search
ExtractScoredReloading ==
    /\ epc = "scored"
    /\ rpc = "idle"
    /\ LET load == LoadTemplates(dirExists, storage)
           m == ScoredSearch(load.reg, text)
       IN  /\ templates' = load.reg
           /\ reads' = Append(reads, Read(load.reg))
           /\ matched' = m
           /\ firstMatch' = m
           /\ epc' = (IF m # None THEN "extract" ELSE "nomatch")
    /\ UNCHANGED <<dirExists, storage, rpc, rfiles, rlocal, rerr, rold, gres, gdoc>>
    /\ UNCHANGED fnVars
    /\ UNCHANGED <<text, autoGen, identified, result, eerr, calls>>

\* line 63, _match_template, lines 211-283: the scored search; line 65
ExtractScored ==
    /\ epc = "scored"
    /\ LET m == ScoredSearch(templates, text)
       IN  /\ reads' = Append(reads, Read(templates))
           /\ matched' = m
           /\ firstMatch' = m
           /\ epc' = (IF m # None THEN "extract" ELSE "nomatch")
    /\ UNCHANGED regVars
    /\ UNCHANGED fnVars
    /\ UNCHANGED <<text, autoGen, identified, result, eerr, calls>>

\* a variant of ExtractGenerate: auto_generate alone leads to the generator
ExtractGenerateWithoutIssuer ==
    /\ epc = "nomatch"
    /\ IF autoGen
       THEN \E llm \in LLMOutcomes :
              LET g == CallGenerateTemplate({"invoice_text", "company_name"},
                                            llm, dirExists, storage)
                  load == LoadTemplates(g.exists, g.files)
                  m == MatchTemplate(load.reg, text, identified)
              IN  IF g.error # "ok"
                  THEN /\ calls' = Append(calls, "generate")
                       /\ eerr' = g.error
                       /\ epc' = "raised"
                       /\ UNCHANGED <<dirExists, storage, templates, rold, matched, reads>>
                  ELSE /\ Len(g.files) <= MaxFiles
                       /\ load.error = "none"
                       /\ calls' = calls \o <<"generate", "reload", "match">>
                       /\ dirExists' = g.exists
                       /\ storage' = g.files
                       /\ rold' = templates
                       /\ templates' = load.reg
                       /\ reads' = Append(reads, Read(load.reg))
                       /\ matched' = m
                       /\ epc' = (IF m # None THEN "extract" ELSE "none")
                       /\ eerr' = eerr
       ELSE /\ epc' = "none"
            /\ UNCHANGED <<dirExists, storage, templates, rold, matched, reads, calls, eerr>>
    /\ UNCHANGED <<rpc, rfiles, rlocal, rerr, gres, gdoc>>
    /\ UNCHANGED <<text, autoGen, identified, firstMatch, result>>
    /\ UNCHANGED fnVars

\* lines 66-72: generation, reload and the second match.  The generator is
\* called with the keywords invoice_text and company_name.
ExtractGenerate ==
    /\ epc = "nomatch"
    /\ IF autoGen /\ IssuerGiven(identified)
       THEN \E llm \in LLMOutcomes :
              LET g == CallGenerateTemplate({"invoice_text", "company_name"},
                                            llm, dirExists, storage)
                  load == LoadTemplates(g.exists, g.files)
                  m == MatchTemplate(load.reg, text, identified)
              IN  IF g.error # "ok"
                  THEN /\ calls' = Append(calls, "generate")
                       /\ eerr' = g.error
                       /\ epc' = "raised"
                       /\ UNCHANGED <<dirExists, storage, templates, rold, matched, reads>>
                  ELSE /\ Len(g.files) <= MaxFiles
                       /\ load.error = "none"
                       /\ calls' = calls \o <<"generate", "reload", "match">>
                       /\ dirExists' = g.exists
                       /\ storage' = g.files
                       /\ rold' = templates
                       /\ templates' = load.reg
                       /\ reads' = Append(reads, Read(load.reg))
                       /\ matched' = m
                       /\ epc' = (IF m # None THEN "extract" ELSE "none")
                       /\ eerr' = eerr
       ELSE /\ epc' = "none"
            /\ UNCHANGED <<dirExists, storage, templates, rold, matched, reads, calls, eerr>>
    /\ UNCHANGED <<rpc, rfiles, rlocal, rerr, gres, gdoc>>
    /\ UNCHANGED <<text, autoGen, identified, firstMatch, result>>
    /\ UNCHANGED fnVars

\* a variant of NoMatchResult: the templates' issuer names are listed
NoMatchResultIssuerNames(reg) ==
    ResultDict("none", None, 0, Some([i \in DOMAIN reg |-> reg[i].tpl.issuer]), None, {})

\* lines 75-83, the dictionary returned when no template matched
NoMatchResult(reg) ==
    ResultDict("none", None, 0, Some(KeyList(reg)), None, {})

\* lines 74-83: no template; the keys of the registry are read for the answer
ExtractReturnNone ==
    /\ epc = "none"
    /\ reads' = Append(reads, Read(templates))
    /\ result' = NoMatchResult(templates)
    /\ epc' = "done"
    /\ UNCHANGED regVars
    /\ UNCHANGED fnVars
    /\ UNCHANGED <<text, autoGen, identified, matched, firstMatch, eerr, calls>>

\* a variant of ExtractWithTemplate: template_used is the registry key
ExtractWithTemplateUsesKey ==
    /\ epc = "extract"
    /\ LET present == text.found \cup {"rechnungssteller"}
       IN  result' = ResultDict("template", Some(Lower(matched[1].issuer)),
                                CalculateConfidence(present), None,
                                Some(matched[1].issuer), present)
    /\ epc' = "done"
    /\ UNCHANGED regVars
    /\ UNCHANGED fnVars
    /\ UNCHANGED <<text, autoGen, identified, matched, firstMatch, eerr, calls, reads>>

\* lines 85-96: _extract_with_template (the issuer is the template's) and
\* the confidence
ExtractWithTemplate ==
    /\ epc = "extract"
    /\ LET present == text.found \cup {"rechnungssteller"}
       IN  result' = ResultDict("template", Some(matched[1].issuer),
                                CalculateConfidence(present), None,
                                Some(matched[1].issuer), present)
    /\ epc' = "done"
    /\ UNCHANGED regVars
    /\ UNCHANGED fnVars
    /\ UNCHANGED <<text, autoGen, identified, matched, firstMatch, eerr, calls, reads>>

\* the texts given to extract calls: a keyword is absent, present somewhere,
\* or present in the top section; no field, the required ones, or all are found
CallTexts ==
    {t \in Texts : /\ \A k \in Keywords : ~t.kw[k].recipient /\ ~t.kw[k].ctx
                   /\ t.found \in {{}, {"rechnungsnummer", "rechnungsbetrag"}, PatternFields}}

NextExtract ==
    \/ ExtractCall(CallTexts)
    \/ ExtractIdentify
    \/ ExtractDirect
    \/ ExtractScored
    \/ ExtractGenerate
    \/ ExtractReturnNone
    \/ ExtractWithTemplate

SpecExtract == Init /\ [][NextExtract]_vars

\* one text, in which the first keyword stands in the top section
TopText ==
    [kw |-> [k \in Keywords |-> [present |-> k = "k1", recipient |-> FALSE,
                                 top |-> k = "k1", ctx |-> FALSE]],
     found |-> PatternFields]

\* the files of the directory in the concurrent runs
FewDocs == {DocAcme, DocNoKw}

\* extract calls of one thread, reloads of another, and the directory changing
NextConcurrent ==
    \/ EnvAddFile(FewDocs)
    \/ EnvRemoveFile
    \/ ReloadBegin
    \/ ReloadFile
    \/ ReloadReturn
    \/ ReloadInstall
    \/ ExtractCall({TopText})
    \/ ExtractIdentify
    \/ ExtractDirect
    \/ ExtractScored
    \/ ExtractGenerate
    \/ ExtractReturnNone
    \/ ExtractWithTemplate

SpecConcurrent == InitOver(FewDocs) /\ [][NextConcurrent]_vars

---------------------------------------------------------------------------
(* _match_template as a function: every registry a directory loads to,     *)
(* every text, every identified issuer                                     *)

\* one more template with keywords, so that templates compete in the search
DocGamma == Doc(<<"c">>, "map", AllKeys, TRUE, <<"C">>, <<"k2">>)

MatchDocs == Docs \cup {DocGamma}

InitMatch ==
    /\ dirExists = TRUE
    /\ storage \in StoragesOf(MatchDocs)
    /\ templates = LoadTemplates(dirExists, storage).reg
    /\ rerr = LoadTemplates(dirExists, storage).error
    /\ rpc = "idle"
    /\ rfiles = <<>>
    /\ rlocal = <<>>
    /\ rold = templates
    /\ gres = "none"
    /\ gdoc = None
    /\ epc = "match"
    /\ text \in {t \in Texts : t.found = {}}
    /\ autoGen = FALSE
    /\ identified \in IdentifyIssuer(templates)
    /\ matched = None
    /\ firstMatch = None
    /\ result = NoResult
    /\ eerr = "none"
    /\ calls = <<>>
    /\ reads = <<>>
    /\ InitFn

MatchCall ==
    /\ epc = "match"
    /\ matched' = MatchTemplate(templates, text, identified)
    /\ epc' = "matched"
    /\ UNCHANGED regVars
    /\ UNCHANGED fnVars
    /\ UNCHANGED <<text, autoGen, identified, firstMatch, result, eerr, calls, reads>>

NextMatch == MatchCall

SpecMatch == InitMatch /\ [][NextMatch]_vars

---------------------------------------------------------------------------
(* _calculate_confidence, lines 505-532, called on its own *)

\* The values _extract_with_template (lines 301-349) gives the counted
\* fields: the strings as Optional non-empty strings, the amount as an
\* Optional float (in cents), leistungen as a list
ResultValues ==
    [rechnungsnummer   : {None, Some(<<"7">>)},
     rechnungssteller  : {Some(<<"A">>)},
     rechnungsbetrag   : {None, Some(0), Some(123456)},
     rechnungsdatum    : {None, Some(<<"0", "1", ".", "0", "2", ".", "2", "0", "2", "4">>)},
     faelligkeitsdatum : {None, Some(<<"0", "1", ".", "0", "3", ".", "2", "0", "2", "4">>)},
     leistungen        : {<<>>, <<<<"x">>>>}]

\* lines 522 and 526, `if result.get(field)`: None, '', 0.0 and [] are falsy
FieldTruthy(res, f) ==
    CASE f = "rechnungsbetrag" -> res[f] # None /\ res[f][1] # 0
      [] f = "leistungen" -> res[f] # <<>>
      [] OTHER -> res[f] # None /\ res[f][1] # <<>>

TruthyFields(res) == {f \in RequiredFields \cup OptionalFields : FieldTruthy(res, f)}

\* _calculate_confidence(result), in hundredths
ConfidenceOf(res) == CalculateConfidence(TruthyFields(res))

CallCalculateConfidence ==
    /\ fpc = "idle"
    /\ fn' = "_calculate_confidence"
    /\ farg' \in ResultValues
    /\ fpc' = "call"
    /\ fret' = None
    /\ UNCHANGED regVars
    /\ UNCHANGED extVars

ReturnCalculateConfidence ==
    /\ fpc = "call"
    /\ fn = "_calculate_confidence"
    /\ fret' = ConfidenceOf(farg)
    /\ fpc' = "returned"
    /\ UNCHANGED <<fn, farg>>
    /\ UNCHANGED regVars
    /\ UNCHANGED extVars

NextConfidence ==
    \/ CallCalculateConfidence
    \/ ReturnCalculateConfidence

SpecConfidence == InitOver({}) /\ [][NextConfidence]_vars

---------------------------------------------------------------------------
(* _parse_number, lines 455-482, called on its own *)

\* strings of at most this many characters are given to _parse_number
MaxAmountLen == 3

Digits == {"0", "1", "2", "3", "4", "5", "6", "7", "8", "9"}

DigitVal(c) ==
    CASE c = "0" -> 0 [] c = "1" -> 1 [] c = "2" -> 2 [] c = "3" -> 3
      [] c = "4" -> 4 [] c = "5" -> 5 [] c = "6" -> 6 [] c = "7" -> 7
      [] c = "8" -> 8 [] c = "9" -> 9

\* the characters of the short amount strings; "nbsp" is '\xa0', "x" any
\* character that is no part of a number
AmountChars == {"0", "1", ".", ",", " ", "nbsp", "x"}

Str1234c56 == <<"1", ",", "2", "3", "4", ".", "5", "6">>
Str1234d56 == <<"1", ".", "2", "3", "4", ",", "5", "6">>

AmountStrings ==
    UNION {[1..n -> AmountChars] : n \in 0..MaxAmountLen}
    \cup {Str1234c56, Str1234d56,
          <<"1", " ", "2", "3", "4", ",", "5", "6">>,
          <<"1", "nbsp", "2", "3", "4", ".", "5", "6">>,
          <<"1", ".", "2", "3", "4", ".", "5", "6">>}

\* str.replace(old, new) for a one-character old
RECURSIVE Replace(_, _, _)
Replace(s, old, new) ==
    IF s = <<>> THEN <<>>
    ELSE (IF Head(s) = old THEN new ELSE <<Head(s)>>) \o Replace(Tail(s), old, new)

RECURSIVE DigitsValue(_)
DigitsValue(s) ==
    IF s = <<>> THEN 0
    ELSE 10 * DigitsValue(SubSeq(s, 1, Len(s) - 1)) + DigitVal(s[Len(s)])

\* A float is kept as the decimal n / 10^scale with no trailing zero in the
\* fraction, so that equal floats are equal records
RECURSIVE Decimal(_, _)
Decimal(n, scale) ==
    IF scale > 0 /\ n % 10 = 0 THEN Decimal(n \div 10, scale - 1)
    ELSE [n |-> n, scale |-> scale]

\* float(s) for a string of these characters with no space in it: digits
\* with at most one '.', at least one digit; None stands for ValueError
ParseFloat(s) ==
    LET dots == {i \in DOMAIN s : s[i] = "."}
    IN  IF \/ \E i \in DOMAIN s : s[i] \notin Digits \cup {"."}
           \/ Cardinality(dots) > 1
           \/ \A i \in DOMAIN s : s[i] = "."
        THEN None
        ELSE Some(Decimal(DigitsValue(SelectSeq(s, LAMBDA c : c \in Digits)),
                          IF dots = {} THEN 0 ELSE Len(s) - (CHOOSE i \in dots : TRUE)))

\* a variant of ParseNumber: the German branch keeps the dots
ParseNumberKeepsDots(num_str, decimal_separator) ==
    LET stripped == Replace(Replace(num_str, " ", <<>>), "nbsp", <<>>)
    IN  IF decimal_separator = "."
        THEN ParseFloat(Replace(stripped, ",", <<>>))
        ELSE ParseFloat(Replace(stripped, ",", <<".">>))

\* _parse_number, lines 466-482: the float, or None after a ValueError
ParseNumber(num_str, decimal_separator) ==
    LET stripped == Replace(Replace(num_str, " ", <<>>), "nbsp", <<>>)
    IN  IF decimal_separator = "."
        THEN ParseFloat(Replace(stripped, ",", <<>>))
        ELSE ParseFloat(Replace(Replace(stripped, ".", <<>>), ",", <<".">>))

CallParseNumber ==
    /\ fpc = "idle"
    /\ fn' = "_parse_number"
    /\ farg' \in [num_str : AmountStrings, decimal_separator : {".", ","}]
    /\ fpc' = "call"
    /\ fret' = None
    /\ UNCHANGED regVars
    /\ UNCHANGED extVars

ReturnParseNumber ==
    /\ fpc = "call"
    /\ fn = "_parse_number"
    /\ fret' = ParseNumber(farg.num_str, farg.decimal_separator)
    /\ fpc' = "returned"
    /\ UNCHANGED <<fn, farg>>
    /\ UNCHANGED regVars
    /\ UNCHANGED extVars

NextParseNumber ==
    \/ CallParseNumber
    \/ ReturnParseNumber

SpecParseNumber == InitOver({}) /\ [][NextParseNumber]_vars

---------------------------------------------------------------------------
(* InvoiceExtractor._parse_german_number, lines 246-255, called on its own *)

\* what the amount patterns of _extract_amount (lines 112-118) capture:
\* digits, spaces, '.' and ','
GermanChars == {"0", "1", ".", ",", " "}

GermanStrings ==
    UNION {[1..n -> GermanChars] : n \in 0..MaxAmountLen}
    \cup {Str1234c56, Str1234d56,
          <<"1", " ", "2", "3", "4", ",", "5", "6">>,
          <<"1", ".", "2", "3", "4", ".", "5", "6", "0", ",", "1", "2">>}

\* s.count(c)
Count(s, c) == Cardinality({i \in DOMAIN s : s[i] = c})

\* str.replace(old, new, count): the first count occurrences, all of them
\* when count is negative, none when it is 0
RECURSIVE ReplaceCount(_, _, _, _)
ReplaceCount(s, old, new, count) ==
    IF s = <<>> \/ count = 0 THEN s
    ELSE IF Head(s) = old THEN new \o ReplaceCount(Tail(s), old, new, count - 1)
    ELSE <<Head(s)>> \o ReplaceCount(Tail(s), old, new, count)

\* _parse_german_number, lines 249-255: the float, or the ValueError float() raises
ParseGermanNumber(num_str) ==
    LET spaceless == Replace(num_str, " ", <<>>)
        dotless == ReplaceCount(spaceless, ".", <<>>, Count(spaceless, ".") - 1)
        f == ParseFloat(Replace(dotless, ",", <<".">>))
    IN  IF f = None THEN [raised |-> TRUE, value |-> "ValueError"]
        ELSE [raised |-> FALSE, value |-> f[1]]

CallParseGermanNumber ==
    /\ fpc = "idle"
    /\ fn' = "_parse_german_number"
    /\ farg' \in GermanStrings
    /\ fpc' = "call"
    /\ fret' = None
    /\ UNCHANGED regVars
    /\ UNCHANGED extVars

ReturnParseGermanNumber ==
    /\ fpc = "call"
    /\ fn = "_parse_german_number"
    /\ fret' = ParseGermanNumber(farg).value
    /\ fpc' = (IF ParseGermanNumber(farg).raised THEN "raised" ELSE "returned")
    /\ UNCHANGED <<fn, farg>>
    /\ UNCHANGED regVars
    /\ UNCHANGED extVars

NextGermanNumber ==
    \/ CallParseGermanNumber
    \/ ReturnParseGermanNumber

SpecGermanNumber == InitOver({}) /\ [][NextGermanNumber]_vars

---------------------------------------------------------------------------
(* _normalize_date, lines 484-503 (the same code as                        *)
(* InvoiceExtractor._normalize_date, lines 257-271), called on its own     *)

\* short strings of at most this many characters are given to _normalize_date
MaxDateLen == 3

DateSeparators == {".", "/", "-"}

\* day and month parts, and year parts, of the longer date strings; "x" is
\* a character that is no digit
DayParts == {<<"1">>, <<"0", "1">>, <<"3", "1">>, <<>>, <<"x">>}

YearParts == {<<"4", "9">>, <<"5", "0">>, <<"0", "0">>, <<"9", "9">>,
              <<"2", "0", "4", "9">>, <<"1", "9", "5", "0">>,
              <<"x", "x">>, <<"4", "x">>, <<"9">>, <<"1", "4", "9">>, <<>>}

DateStrings ==
    UNION {[1..n -> {"1", ".", "/", "x"}] : n \in 0..MaxDateLen}
    \cup {d \o <<s1>> \o m \o <<s2>> \o y :
            d \in DayParts, s1 \in DateSeparators, m \in DayParts,
            s2 \in DateSeparators, y \in YearParts}

\* str.split('.')
RECURSIVE Split(_)
Split(s) ==
    LET dots == {i \in DOMAIN s : s[i] = "."}
    IN  IF dots = {} THEN <<s>>
        ELSE LET i == CHOOSE d \in dots : \A e \in dots : d <= e
             IN  <<SubSeq(s, 1, i - 1)>> \o Split(SubSeq(s, i + 1, Len(s)))

\* str.zfill(2), for a string without a sign
Zfill2(s) ==
    IF Len(s) >= 2 THEN s ELSE IF Len(s) = 1 THEN <<"0">> \o s ELSE <<"0", "0">>

\* int(s) for a string of these characters: None stands for ValueError
ParseInt(s) ==
    IF s # <<>> /\ \A i \in DOMAIN s : s[i] \in Digits THEN Some(DigitsValue(s)) ELSE None

\* a variant of NormalizeDate: the century is put before a year of any length
NormalizeDateAnyLength(date_str) ==
    LET dotted == Replace(Replace(date_str, "/", <<".">>), "-", <<".">>)
        parts == Split(dotted)
    IN  IF Len(parts) = 3
        THEN IF ParseInt(parts[3]) = None
             THEN [raised |-> TRUE, value |-> "ValueError"]
             ELSE [raised |-> FALSE,
                   value |-> Zfill2(parts[1]) \o <<".">> \o Zfill2(parts[2]) \o <<".">>
                             \o (IF ParseInt(parts[3])[1] < 50 THEN <<"2", "0">>
                                 ELSE <<"1", "9">>) \o parts[3]]
        ELSE [raised |-> FALSE, value |-> dotted]

\* a variant of NormalizeDate: the year 50 is still taken to the 2000s
NormalizeDatePivot51(date_str) ==
    LET dotted == Replace(Replace(date_str, "/", <<".">>), "-", <<".">>)
        parts == Split(dotted)
    IN  IF Len(parts) = 3
        THEN IF Len(parts[3]) = 2 /\ ParseInt(parts[3]) = None
             THEN [raised |-> TRUE, value |-> "ValueError"]
             ELSE [raised |-> FALSE,
                   value |-> Zfill2(parts[1]) \o <<".">> \o Zfill2(parts[2]) \o <<".">>
                             \o (IF Len(parts[3]) = 2
                                 THEN (IF ParseInt(parts[3])[1] < 51 THEN <<"2", "0">>
                                       ELSE <<"1", "9">>) \o parts[3]
                                 ELSE parts[3])]
        ELSE [raised |-> FALSE, value |-> dotted]

\* _normalize_date, lines 487-503: the string returned, or the ValueError
\* int(year) raises
NormalizeDate(date_str) ==
    LET dotted == Replace(Replace(date_str, "/", <<".">>), "-", <<".">>)
        parts == Split(dotted)
    IN  IF Len(parts) = 3
        THEN IF Len(parts[3]) = 2 /\ ParseInt(parts[3]) = None
             THEN [raised |-> TRUE, value |-> "ValueError"]
             ELSE [raised |-> FALSE,
                   value |-> Zfill2(parts[1]) \o <<".">> \o Zfill2(parts[2]) \o <<".">>
                             \o (IF Len(parts[3]) = 2
                                 THEN (IF ParseInt(parts[3])[1] < 50 THEN <<"2", "0">>
                                       ELSE <<"1", "9">>) \o parts[3]
                                 ELSE parts[3])]
        ELSE [raised |-> FALSE, value |-> dotted]

CallNormalizeDate ==
    /\ fpc = "idle"
    /\ fn' = "_normalize_date"
    /\ farg' \in DateStrings
    /\ fpc' = "call"
    /\ fret' = None
    /\ UNCHANGED regVars
    /\ UNCHANGED extVars

ReturnNormalizeDate ==
    /\ fpc = "call"
    /\ fn = "_normalize_date"
    /\ fret' = NormalizeDate(farg).value
    /\ fpc' = (IF NormalizeDate(farg).raised THEN "raised" ELSE "returned")
    /\ UNCHANGED <<fn, farg>>
    /\ UNCHANGED regVars
    /\ UNCHANGED extVars

NextNormalizeDate ==
    \/ CallNormalizeDate
    \/ ReturnNormalizeDate

SpecNormalizeDate == InitOver({}) /\ [][NextNormalizeDate]_vars

---------------------------------------------------------------------------
(* _extract_lines, lines 423-453, called on its own *)

\* at most this many line patterns in a template, and at most this many
\* matches of one pattern, in the short inputs
MaxPatterns == 2
MaxMatches == 2

\* line 453, services[:50]
LineCap == 50

\* str.strip(), the whitespace being ' '
RECURSIVE Strip(_)
Strip(s) ==
    IF s = <<>> THEN <<>>
    ELSE IF s[1] = " " THEN Strip(Tail(s))
    ELSE IF s[Len(s)] = " " THEN Strip(SubSeq(s, 1, Len(s) - 1))
    ELSE s

\* What one match gives as `service` (lines 440-443): the text of group 1
\* or of the whole match, or None when group 1 took no part in the match
\* (written as a string of the one sign "None", which is no character)
NoGroup == <<"None">>
MatchTexts == {<<" ">>, <<"a">>, <<" ", "a">>, NoGroup}

\* One entry of the template's `lines`, by what the code does with it:
\*   "nondict"  no dict (line 431)
\*   "nodesc"   a dict without a description pattern (line 434)
\*   "error"    re.finditer raises: the pattern does not compile, or is no string
\*   "ok"       re.finditer yields the matches
LinePattern(kind, matches) == [kind |-> kind, matches |-> matches]

ShortPatterns ==
    {LinePattern(k, <<>>) : k \in {"nondict", "nodesc", "error"}}
    \cup {LinePattern("ok", m) : m \in UNION {[1..n -> MatchTexts] : n \in 0..MaxMatches}}

\* 'a', 'aa', ...: two more than the cap, all different
ManyMatches == [i \in 1..(LineCap + 2) |-> [j \in 1..i |-> "a"]]

LinePatternLists ==
    UNION {[1..n -> ShortPatterns] : n \in 0..MaxPatterns}
    \cup {<<LinePattern("ok", ManyMatches)>>,
          <<LinePattern("error", <<>>), LinePattern("ok", ManyMatches),
            LinePattern("ok", <<<<" ", "a">>, <<"b">>>>)>>}

\* the matches the loop of lines 438-449 gets to: those before the first
\* without group 1, whose None.strip() raises AttributeError and ends the
\* loop of this pattern (line 450)
Reached(matches) ==
    {i \in DOMAIN matches : \A j \in 1..i : matches[j] # NoGroup}

\* the entries of seq at the indices of the set at, in their order
Pick(seq, at) ==
    [k \in 1..Cardinality(at) |->
        seq[CHOOSE i \in at : Cardinality({j \in at : j <= i}) = k]]

\* a variant of AddMatches: a service is appended though it is in the list
AddMatchesNoTest(services, matches) ==
    LET service == [i \in DOMAIN matches |-> Strip(matches[i])]
        appended == {i \in Reached(matches) : service[i] # <<>>}
    IN  services \o Pick(service, appended)

\* lines 438-449, the loop over the matches of one pattern, written without
\* recursion: the iteration for match i appends its stripped service when
\* that is not empty and not in the list, which by then holds the services
\* of before the loop and those appended for the matches before i
AddMatches(services, matches) ==
    LET service == [i \in DOMAIN matches |-> Strip(matches[i])]
        appended == {i \in Reached(matches) :
                        /\ service[i] # <<>>
                        /\ \A k \in DOMAIN services : services[k] # service[i]
                        /\ \A j \in 1..(i - 1) : service[j] # service[i]}
    IN  services \o Pick(service, appended)

\* lines 430-451, the loop over the patterns
RECURSIVE ExtractLinesFrom(_, _)
ExtractLinesFrom(services, patterns) ==
    IF patterns = <<>> THEN services
    ELSE ExtractLinesFrom(IF Head(patterns).kind = "ok"
                          THEN AddMatches(services, Head(patterns).matches)
                          ELSE services,
                          Tail(patterns))

\* _extract_lines(text, line_patterns), by what the patterns give on the text
ExtractLines(line_patterns) ==
    LET services == ExtractLinesFrom(<<>>, line_patterns)
    IN  SubSeq(services, 1, IF Len(services) < LineCap THEN Len(services) ELSE LineCap)

CallExtractLines ==
    /\ fpc = "idle"
    /\ fn' = "_extract_lines"
    /\ farg' \in LinePatternLists
    /\ fpc' = "call"
    /\ fret' = None
    /\ UNCHANGED regVars
    /\ UNCHANGED extVars

ReturnExtractLines ==
    /\ fpc = "call"
    /\ fn = "_extract_lines"
    /\ fret' = ExtractLines(farg)
    /\ fpc' = "returned"
    /\ UNCHANGED <<fn, farg>>
    /\ UNCHANGED regVars
    /\ UNCHANGED extVars

NextExtractLines ==
    \/ CallExtractLines
    \/ ReturnExtractLines

SpecExtractLines == InitOver({}) /\ [][NextExtractLines]_vars

---------------------------------------------------------------------------
(* _extract_field, lines 362-375, and _extract_amount_field, lines         *)
(* 407-421, called on their own                                            *)

\* A pattern of a template's `fields`, by what re.search does with it on the
\* text of the call:
\*   "none"       the field has no pattern (fields.get gives None)
\*   "empty"      the pattern is ''
\*   "malformed"  the pattern does not compile: re.error
\*   "nonstring"  the YAML value is no string: TypeError
\*   "nogroup"    the pattern compiles and has no capture group
\*   "ok"         the pattern compiles and has a group 1
\* matches: what group 1 holds in the matches the text has for the pattern,
\* in the order of the text (NoGroup: group 1 took no part in the match)
FieldPattern(kind, matches) == [kind |-> kind, matches |-> matches]

\* what a group 1 may hold for a string field
FieldTexts == {<<>>, <<" ">>, <<"a">>, <<" ", "a", " ">>, NoGroup}

PatternsOver(captures) ==
    {FieldPattern(k, <<>>) : k \in {"none", "empty", "malformed", "nonstring"}}
    \cup {FieldPattern(k, m) : k \in {"nogroup", "ok"},
                               m \in UNION {[1..n -> captures] : n \in 0..MaxMatches}}

FieldPatterns == PatternsOver(FieldTexts)

\* the exceptions the try bodies of the field extractors raise
FieldExceptions == {"re.error", "TypeError", "IndexError", "AttributeError", "ValueError"}

\* a variant of ExceptException: only the pattern error is caught
ExceptReError(exc) == exc = "re.error"

\* lines 372, 402 and 418, except Exception
ExceptException(exc) == exc \in FieldExceptions

\* lines 368-370 (388-390, 414-416): re.search and match.group(1).strip();
\* exc is the exception raised, matched whether re.search gave a match
SearchGroup(pattern) ==
    IF pattern.kind = "malformed"
    THEN [exc |-> "re.error", matched |-> FALSE, value |-> <<>>]
    ELSE IF pattern.kind = "nonstring"
    THEN [exc |-> "TypeError", matched |-> FALSE, value |-> <<>>]
    ELSE IF pattern.matches = <<>>
    THEN [exc |-> "none", matched |-> FALSE, value |-> <<>>]
    ELSE IF pattern.kind = "nogroup"
    THEN [exc |-> "IndexError", matched |-> TRUE, value |-> <<>>]
    ELSE IF Head(pattern.matches) = NoGroup
    THEN [exc |-> "AttributeError", matched |-> TRUE, value |-> <<>>]
    ELSE [exc |-> "none", matched |-> TRUE, value |-> Strip(Head(pattern.matches))]

\* `if not pattern` (lines 364, 384, 410)
NoPattern(pattern) == pattern.kind \in {"none", "empty"}

\* _extract_field(text, pattern): the Optional string returned, or the
\* exception that leaves the method
ExtractField(pattern) ==
    IF NoPattern(pattern) THEN [raised |-> FALSE, value |-> None]
    ELSE LET g == SearchGroup(pattern)
         IN  IF g.exc # "none"
             THEN IF ExceptException(g.exc) THEN [raised |-> FALSE, value |-> None]
                  ELSE [raised |-> TRUE, value |-> g.exc]
             ELSE IF g.matched /\ g.value # <<>>
             THEN [raised |-> FALSE, value |-> Some(g.value)]
             ELSE [raised |-> FALSE, value |-> None]

\* what a group 1 may hold for an amount
AmountTexts == {<<>>, <<" ">>, <<"1", ".", "5">>, <<" ", "1", ",", "5">>, <<"x">>, NoGroup}

AmountPatterns == PatternsOver(AmountTexts)

\* _extract_amount_field(text, pattern, decimal_separator): the Optional
\* float returned, or the exception that leaves the method
ExtractAmountField(pattern, decimal_separator) ==
    IF NoPattern(pattern) THEN [raised |-> FALSE, value |-> None]
    ELSE LET g == SearchGroup(pattern)
         IN  IF g.exc # "none"
             THEN IF ExceptException(g.exc) THEN [raised |-> FALSE, value |-> None]
                  ELSE [raised |-> TRUE, value |-> g.exc]
             ELSE IF g.matched
             THEN [raised |-> FALSE, value |-> ParseNumber(g.value, decimal_separator)]
             ELSE [raised |-> FALSE, value |-> None]

CallExtractField ==
    /\ fpc = "idle"
    /\ fn' = "_extract_field"
    /\ farg' \in FieldPatterns
    /\ fpc' = "call"
    /\ fret' = None
    /\ UNCHANGED regVars
    /\ UNCHANGED extVars

ReturnExtractField ==
    /\ fpc = "call"
    /\ fn = "_extract_field"
    /\ fret' = ExtractField(farg).value
    /\ fpc' = (IF ExtractField(farg).raised THEN "raised" ELSE "returned")
    /\ UNCHANGED <<fn, farg>>
    /\ UNCHANGED regVars
    /\ UNCHANGED extVars

CallExtractAmountField ==
    /\ fpc = "idle"
    /\ fn' = "_extract_amount_field"
    /\ farg' \in [pattern : AmountPatterns, decimal_separator : {".", ","}]
    /\ fpc' = "call"
    /\ fret' = None
    /\ UNCHANGED regVars
    /\ UNCHANGED extVars

ReturnExtractAmountField ==
    /\ fpc = "call"
    /\ fn = "_extract_amount_field"
    /\ fret' = ExtractAmountField(farg.pattern, farg.decimal_separator).value
    /\ fpc' = (IF ExtractAmountField(farg.pattern, farg.decimal_separator).raised
               THEN "raised" ELSE "returned")
    /\ UNCHANGED <<fn, farg>>
    /\ UNCHANGED regVars
    /\ UNCHANGED extVars

NextExtractField ==
    \/ CallExtractField
    \/ ReturnExtractField
    \/ CallExtractAmountField
    \/ ReturnExtractAmountField

SpecExtractField == InitOver({}) /\ [][NextExtractField]_vars

---------------------------------------------------------------------------
(* _extract_date_field, lines 377-405, called on its own *)

\* the date formats of the model: day, month and year in figures, with one
\* separator, and one with the month's name
FmtDMY == <<"%d", ".", "%m", ".", "%Y">>
FmtMDY == <<"%m", ".", "%d", ".", "%Y">>
FmtDMy == <<"%d", ".", "%m", ".", "%y">>
FmtSlash == <<"%d", "/", "%m", "/", "%Y">>
FmtMonthName == <<"%B", " ", "%d", ",", " ", "%Y">>

\* options.get('date_formats', [...]) (line 325)
DateFormatLists ==
    {<<>>, <<FmtDMY>>, <<FmtMDY, FmtDMY>>, <<FmtDMY, FmtMDY>>, <<FmtSlash, FmtDMY>>,
     <<FmtDMy, FmtDMY>>, <<FmtMonthName, FmtDMY>>}

\* str.split(c)
RECURSIVE SplitOn(_, _)
SplitOn(s, c) ==
    LET at == {i \in DOMAIN s : s[i] = c}
    IN  IF at = {} THEN <<s>>
        ELSE LET i == CHOOSE d \in at : \A e \in at : d <= e
             IN  <<SubSeq(s, 1, i - 1)>> \o SplitOn(SubSeq(s, i + 1, Len(s)), c)

\* one or two digits with a value in lo..hi: what %d and %m take
IsNumberIn(p, lo, hi) ==
    /\ Len(p) \in {1, 2}
    /\ ParseInt(p) # None
    /\ ParseInt(p)[1] \in lo..hi

\* the days of a month of the Gregorian calendar
DaysIn(month, year) ==
    IF month \in {4, 6, 9, 11} THEN 30
    ELSE IF month # 2 THEN 31
    ELSE IF year % 4 = 0 /\ (year % 100 # 0 \/ year % 400 = 0) THEN 29
    ELSE 28

\* datetime.strptime(date_str, fmt) for these formats and strings without a
\* month's name: the date, or None for ValueError.  %Y takes four digits, %y
\* two, which are a year of 2000-2068 or 1969-1999.
Strptime(date_str, fmt) ==
    IF fmt = FmtMonthName THEN None
    ELSE LET parts == SplitOn(date_str, fmt[2])
         IN  IF Len(parts) # 3 THEN None
             ELSE LET day == IF fmt[1] = "%d" THEN parts[1] ELSE parts[2]
                      month == IF fmt[1] = "%m" THEN parts[1] ELSE parts[2]
                      digits == IF fmt[5] = "%Y" THEN 4 ELSE 2
                  IN  IF \/ ~IsNumberIn(day, 1, 31)
                         \/ ~IsNumberIn(month, 1, 12)
                         \/ Len(parts[3]) # digits
                         \/ ParseInt(parts[3]) = None
                      THEN None
                      ELSE LET y == ParseInt(parts[3])[1]
                               year == IF fmt[5] = "%Y" THEN y
                                       ELSE IF y < 69 THEN 2000 + y ELSE 1900 + y
                               d == ParseInt(day)[1]
                               m == ParseInt(month)[1]
                           IN  IF year < 1 \/ d > DaysIn(m, year) THEN None
                               ELSE Some([day |-> d, month |-> m, year |-> year])

DigitChar(n) == CHOOSE c \in Digits : DigitVal(c) = n

\* date_obj.strftime('%d.%m.%Y'), for a year of four digits
Strftime(date) ==
    <<DigitChar(date.day \div 10), DigitChar(date.day % 10), ".",
      DigitChar(date.month \div 10), DigitChar(date.month % 10), ".",
      DigitChar(date.year \div 1000), DigitChar((date.year \div 100) % 10),
      DigitChar((date.year \div 10) % 10), DigitChar(date.year % 10)>>

\* lines 393-398: the first format, in order, that parses the string, as a
\* 0/1 sequence of the date it gives
RECURSIVE FirstParse(_, _)
FirstParse(date_str, date_formats) ==
    IF date_formats = <<>> THEN None
    ELSE IF Strptime(date_str, Head(date_formats)) # None
    THEN Strptime(date_str, Head(date_formats))
    ELSE FirstParse(date_str, Tail(date_formats))

\* lines 390-401, for the trimmed group 1 of a match: the string returned,
\* or the exception raised
DateOf(date_str, date_formats) ==
    IF FirstParse(date_str, date_formats) # None
    THEN [raised |-> FALSE, value |-> Strftime(FirstParse(date_str, date_formats)[1])]
    ELSE NormalizeDate(date_str)

\* what a group 1 may hold for a date: '1/2/2024', '01.02.24', '01.02.2024',
\* '31.02.2024', '1.1.xx', '', or nothing
DateTexts ==
    {<<"1", "/", "2", "/", "2", "0", "2", "4">>,
     <<"0", "1", ".", "0", "2", ".", "2", "4">>,
     <<" ", "0", "1", ".", "0", "2", ".", "2", "0", "2", "4">>,
     <<"3", "1", ".", "0", "2", ".", "2", "0", "2", "4">>,
     <<"1", ".", "1", ".", "x", "x">>,
     <<>>,
     NoGroup}

\* the patterns given for a date: of those that match, group 1 of the first
\* match is what counts; one pattern has a second match
DatePatterns ==
    {FieldPattern(k, <<>>) : k \in {"none", "malformed", "ok"}}
    \cup {FieldPattern("ok", <<c>>) : c \in DateTexts}
    \cup {FieldPattern("nogroup", <<<<"1">>>>),
          FieldPattern("ok", <<<<"0", "1", ".", "0", "2", ".", "2", "4">>,
                               <<"1", "/", "2", "/", "2", "0", "2", "4">>>>)}

DatePatternLists == UNION {[1..n -> DatePatterns] : n \in 0..MaxPatterns}

\* lines 383-405, the loop over the patterns: an exception of a pattern's
\* try body is caught (line 402) and the loop goes on with the next pattern
RECURSIVE ExtractDateFrom(_, _)
ExtractDateFrom(patterns, date_formats) ==
    IF patterns = <<>> THEN [raised |-> FALSE, value |-> None]
    ELSE LET g == SearchGroup(Head(patterns))
             d == DateOf(g.value, date_formats)
             next == ExtractDateFrom(Tail(patterns), date_formats)
         IN  IF NoPattern(Head(patterns)) THEN next
             ELSE IF g.exc # "none"
             THEN IF ExceptException(g.exc) THEN next
                  ELSE [raised |-> TRUE, value |-> g.exc]
             ELSE IF ~g.matched THEN next
             ELSE IF d.raised
             THEN IF ExceptException(d.value) THEN next ELSE d
             ELSE [raised |-> FALSE, value |-> Some(d.value)]

\* _extract_date_field(text, patterns, date_formats): the Optional string
\* returned, or the exception that leaves the method
ExtractDateField(patterns, date_formats) == ExtractDateFrom(patterns, date_formats)

CallExtractDateField ==
    /\ fpc = "idle"
    /\ fn' = "_extract_date_field"
    /\ farg' \in [patterns : DatePatternLists, date_formats : DateFormatLists]
    /\ fpc' = "call"
    /\ fret' = None
    /\ UNCHANGED regVars
    /\ UNCHANGED extVars

ReturnExtractDateField ==
    /\ fpc = "call"
    /\ fn = "_extract_date_field"
    /\ fret' = ExtractDateField(farg.patterns, farg.date_formats).value
    /\ fpc' = (IF ExtractDateField(farg.patterns, farg.date_formats).raised
               THEN "raised" ELSE "returned")
    /\ UNCHANGED <<fn, farg>>
    /\ UNCHANGED regVars
    /\ UNCHANGED extVars

NextExtractDateField ==
    \/ CallExtractDateField
    \/ ReturnExtractDateField

SpecExtractDateField == InitOver({}) /\ [][NextExtractDateField]_vars

---------------------------------------------------------------------------
(* Properties *)

\* the normalized score of registry entry i for the text, as num / den,
\* when the entry takes part in the scored search
HasKeywords(reg, i) == KeywordsOf(reg[i].tpl) # <<>>
RawScore(reg, i, txt) == ScoreFrom(KeywordsOf(reg[i].tpl), txt, 0, 0)
NormNum(reg, i, txt) == RawScore(reg, i, txt).score * RawScore(reg, i, txt).matched
NormDen(reg, i) == Len(KeywordsOf(reg[i].tpl))
Scored(reg, txt) ==
    {i \in DOMAIN reg : /\ HasKeywords(reg, i)
                        /\ RawScore(reg, i, txt).score > 0
                        /\ RawScore(reg, i, txt).matched > 0}

FromScoredSearch == epc = "matched" /\ DirectHit(templates, identified) = None

\* C1: the scored search returns a template only if that template's
\* normalized score is at least 2.0, and returns one whenever some template
\* reaches 2.0; below 2.0 it returns none.
C1_Threshold ==
    FromScoredSearch =>
        /\ matched # None =>
             \E i \in Scored(templates, text) :
                /\ templates[i].tpl = matched[1]
                /\ NormNum(templates, i, text) >= 2 * NormDen(templates, i)
        /\ (\E i \in Scored(templates, text) :
                NormNum(templates, i, text) >= 2 * NormDen(templates, i))
             => matched # None

\* a score of exactly 2.0 (one keyword of two, in the top section) is accepted
C1_Witness ==
    /\ FromScoredSearch
    /\ matched # None
    /\ \A i \in Scored(templates, text) :
          NormNum(templates, i, text) <= 2 * NormDen(templates, i)
    /\ \E i \in Scored(templates, text) :
          /\ NormNum(templates, i, text) = 2 * NormDen(templates, i)
          /\ NormDen(templates, i) = 2

\* the claim's relation between the identified issuer and a registry key
IssuerHitsKey(ident, key) ==
    IsSubstr(Lower(ident[1]), key) \/ IsSubstr(key, Lower(ident[1]))

\* C2: with an identified issuer whose lowercase form is contained in, or
\* contains, a registry key, match returns the template of the first such
\* key, whatever the keywords, the text and the threshold.
C2_DirectHit ==
    (/\ epc = "matched"
     /\ IssuerGiven(identified)
     /\ \E i \in DOMAIN templates : IssuerHitsKey(identified, templates[i].key))
    => /\ matched # None
       /\ \E i \in DOMAIN templates :
            /\ IssuerHitsKey(identified, templates[i].key)
            /\ \A j \in 1..(i - 1) : ~IssuerHitsKey(identified, templates[j].key)
            /\ matched[1] = templates[i].tpl

\* a direct hit on a template without keywords, by an issuer contained in
\* its key, for a text in which the scored search finds another template
C2_Witness ==
    /\ epc = "matched"
    /\ IssuerGiven(identified)
    /\ matched # None
    /\ KeywordsOf(matched[1]) = <<>>
    /\ Len(Lower(identified[1])) < Len(Lower(matched[1].issuer))
    /\ ScoredSearch(templates, text) # None
    /\ ScoredSearch(templates, text) # matched

\* C3: after a first match of none with auto_generate set, extract calls the
\* generator, then reload, then match once more, in this order and once
\* each, with or without an identified issuer.
C3_GenerateReloadRetry ==
    (epc \in {"done", "raised"} /\ firstMatch = None /\ autoGen)
    => calls = <<"generate", "reload", "match">>

Range(seq) == {seq[i] : i \in DOMAIN seq}

\* C4: an extract call that returns without a matched template returns
\* extraction_method "none", no template_used, confidence 0.0 and, as
\* available_templates, the keys the registry has at that moment.
C4_NoMatchResult ==
    (epc = "done" /\ matched = None)
    => /\ result.extraction_method = "none"
       /\ result.template_used = None
       /\ result.confidence = 0
       /\ result.available_templates # None
       /\ Range(result.available_templates[1]) = Keys(templates)
       /\ Len(result.available_templates[1]) = Cardinality(Keys(templates))

\* a call without auto_generate returned none over a registry that holds a
\* template whose issuer is not in lower case
C4_Witness ==
    /\ epc = "done"
    /\ matched = None
    /\ ~autoGen
    /\ result.extraction_method = "none"
    /\ \E i \in DOMAIN templates : templates[i].tpl.issuer # templates[i].key

\* C5: no exception leaves extract.
C5_NoErrorEscapes == epc # "raised" /\ eerr = "none"

\* C6: every template of the registry has issuer, keywords and fields.
C6_IndexedHaveAllKeys ==
    \A i \in DOMAIN templates : AllKeys \subseteq templates[i].tpl.has

\* a generated document that is no mapping or lacks one of the three keys
InvalidDoc(doc) == doc.kind # "map" \/ ~(AllKeys \subseteq doc.has)

\* C7: the generator answers such a document with a validation error and
\* leaves the directory as it was, so that the registry a reload builds
\* afterwards has no key it would not have had before.
C7_GeneratorRejects ==
    [][(gres = "none" /\ gres' # "none" /\ gdoc' # None /\ InvalidDoc(gdoc'[1]))
       => /\ gres' = "ValueError"
          /\ storage' = storage
          /\ dirExists' = dirExists
          /\ Keys(LoadTemplates(dirExists', storage').reg)
               \subseteq Keys(LoadTemplates(dirExists, storage).reg)]_vars

\* a mapping with issuer and keywords and without fields was rejected
C7_Witness ==
    /\ gres = "ValueError"
    /\ gdoc # None
    /\ gdoc[1].kind = "map"
    /\ gdoc[1].has = {"issuer", "keywords"}

\* a document the load indexes: a mapping with a string issuer
Indexable(doc) == doc.kind = "map" /\ "issuer" \in doc.has /\ doc.issuerIsStr

IndexableKeys(exists, files) ==
    {Lower(files[i].issuer) : i \in {j \in DOMAIN files : exists /\ Indexable(files[j])}}

\* C8: no exception leaves _load_templates; over a missing directory it gives
\* the empty registry; otherwise it gives an entry for every indexable
\* document and for nothing else, whatever other files the directory holds.
C8_LoadNeverFails ==
    /\ rerr = "none"
    /\ rpc # "raised"
    /\ rpc = "install" =>
         /\ (~dirExists => rlocal = <<>>)
         /\ Keys(rlocal) = IndexableKeys(dirExists, storage)

\* a load has gone over a file that does not parse and then a good one
C8_Witness ==
    /\ rpc = "install"
    /\ Len(storage) = 2
    /\ storage[1].kind = "unparsable"
    /\ Indexable(storage[2])
    /\ Keys(rlocal) = {Lower(storage[2].issuer)}

Last(seq) == seq[Len(seq)]

\* C9: the registry changes only by the assignment of the completely built
\* dict; while a reload runs it is the dict of before, and that is what a
\* read made meanwhile gets.
C9_NoPartialRegistry ==
    [][/\ templates' # templates
            => (rpc = "install" /\ rpc' = "idle" /\ rfiles = <<>> /\ templates' = rlocal)
       /\ rpc # "idle" => templates = rold
       /\ (reads' # reads /\ reads' # <<>>)
            => /\ Last(reads').seen = templates
               /\ Last(reads').reloading => Last(reads').seen = rold]_vars

\* an extract call has read the registry while a reload was running, whose
\* dict, partly built, differs from the registry
C9_Witness ==
    /\ rpc = "loading"
    /\ rfiles # <<>>
    /\ rlocal # <<>>
    /\ rlocal # templates
    /\ templates # <<>>
    /\ reads # <<>>
    /\ Last(reads).reloading
    /\ Last(reads).seen = templates

\* reg is what loading the files gives: one entry for each key of an
\* indexable file, holding the last file of that key, in the order in which
\* the keys first occur
FirstOf(files, key) ==
    CHOOSE i \in DOMAIN files :
        /\ Indexable(files[i]) /\ Lower(files[i].issuer) = key
        /\ \A j \in 1..(i - 1) : ~(Indexable(files[j]) /\ Lower(files[j].issuer) = key)
LastOf(files, key) ==
    CHOOSE i \in DOMAIN files :
        /\ Indexable(files[i]) /\ Lower(files[i].issuer) = key
        /\ \A j \in (i + 1)..Len(files) : ~(Indexable(files[j]) /\ Lower(files[j].issuer) = key)
IsLoadOf(reg, exists, files) ==
    /\ \A i, j \in DOMAIN reg : i # j => reg[i].key # reg[j].key
    /\ Keys(reg) = IndexableKeys(exists, files)
    /\ \A i \in DOMAIN reg : reg[i].tpl = files[LastOf(files, reg[i].key)]
    /\ \A i, j \in DOMAIN reg :
          i < j => FirstOf(files, reg[i].key) < FirstOf(files, reg[j].key)

\* C10: the registry a reload installs is the load of the directory: nothing
\* of the registry of before is kept, and over an unchanged directory the
\* registry stays as it is.
C10_ReloadExact ==
    [][(rpc = "install" /\ rpc' = "idle")
       => /\ IsLoadOf(templates', dirExists, storage)
          /\ IsLoadOf(templates, dirExists, storage) => templates' = templates]_vars

\* a reload has dropped one key and brought another
C10_Witness ==
    /\ rpc = "idle"
    /\ Keys(rold) \ Keys(templates) # {}
    /\ Keys(templates) \ Keys(rold) # {}
    /\ IsLoadOf(templates, dirExists, storage)

\* a counted field of a result is present: it is not None, and leistungen,
\* which is always a list, has an entry
FieldPresent(res, f) == IF f = "leistungen" THEN res[f] # <<>> ELSE res[f] # None

PresentRequired(res) == Cardinality({f \in RequiredFields : FieldPresent(res, f)})
PresentOptional(res) == Cardinality({f \in OptionalFields : FieldPresent(res, f)})

\* C11: the confidence is 0.7 * r/3 + 0.3 * o/3 rounded to two decimals, r
\* and o the numbers of present required and optional fields; it lies in
\* [0, 1] and is 1.0 exactly when all six fields are present.
C11_ConfidenceFormula ==
    (fpc = "returned" /\ fn = "_calculate_confidence")
    => /\ fret = RoundDiv(70 * PresentRequired(farg) + 30 * PresentOptional(farg), 3)
       /\ fret \in 0..100
       /\ fret = 100 <=> (PresentRequired(farg) = 3 /\ PresentOptional(farg) = 3)

\* C12: a result that differs from another only in a required field, absent
\* in the one and present in the other, has the strictly greater confidence.
C12_ConfidenceMonotone ==
    (fpc = "returned" /\ fn = "_calculate_confidence")
    => \A f \in RequiredFields : \A other \in ResultValues :
          (/\ ~FieldPresent(farg, f)
           /\ FieldPresent(other, f)
           /\ \A g \in (RequiredFields \cup OptionalFields) \ {f} : other[g] = farg[g])
          => ConfidenceOf(other) > fret

\* the text with keyword k taken out
WithoutKeyword(txt, k) ==
    [txt EXCEPT !.kw[k] = [present |-> FALSE, recipient |-> FALSE,
                           top |-> FALSE, ctx |-> FALSE]]

\* the keywords of registry entry i that the text has
MatchedKeywords(reg, i, txt) ==
    {n \in DOMAIN KeywordsOf(reg[i].tpl) : txt.kw[KeywordsOf(reg[i].tpl)[n]].present}

\* the only keyword of entry i the text has stands in a recipient context
OnlyRecipientKeyword(reg, i, txt) ==
    /\ Cardinality(MatchedKeywords(reg, i, txt)) = 1
    /\ \A n \in MatchedKeywords(reg, i, txt) : txt.kw[KeywordsOf(reg[i].tpl)[n]].recipient

\* C13: a keyword in a recipient context adds 1 - 5 = -4 to its template's
\* score and no bonus, wherever else it stands; a template whose only
\* matched keyword is such a keyword is not what the scored search returns.
C13_RecipientPenalty ==
    FromScoredSearch =>
        \A i \in DOMAIN templates :
            /\ \A n \in DOMAIN KeywordsOf(templates[i].tpl) :
                  LET k == KeywordsOf(templates[i].tpl)[n]
                  IN  text.kw[k].recipient =>
                        RawScore(templates, i, text).score
                          = RawScore(templates, i, WithoutKeyword(text, k)).score - 4
            /\ OnlyRecipientKeyword(templates, i, text) =>
                  /\ RawScore(templates, i, text).score = -4
                  /\ matched # Some(templates[i].tpl)

\* the only matched keyword of the only template stands in a recipient
\* context, and also in the top section and in an issuer context
C13_Witness ==
    /\ FromScoredSearch
    /\ Len(templates) = 1
    /\ OnlyRecipientKeyword(templates, 1, text)
    /\ Len(KeywordsOf(templates[1].tpl)) = 1
    /\ text.kw[KeywordsOf(templates[1].tpl)[1]].top
    /\ text.kw[KeywordsOf(templates[1].tpl)[1]].ctx
    /\ matched = None

\* C14: a call in which no issuer was identified does not raise; its match
\* is the scored search alone, and a template that reaches the threshold is
\* used for the extraction, whose result is made of the template and the
\* text only.
C14_IssuerAdvisory ==
    (epc \in {"done", "raised"} /\ identified = None)
    => /\ epc = "done"
       /\ firstMatch = ScoredSearch(templates, text)
       /\ firstMatch # None =>
            /\ matched = firstMatch
            /\ result.extraction_method = "template"
            /\ result.template_used = Some(firstMatch[1].issuer)
            /\ result.rechnungssteller = Some(firstMatch[1].issuer)
            /\ result.present = text.found \cup {"rechnungssteller"}
            /\ result.confidence = CalculateConfidence(result.present)

\* without an issuer a template was found by its keywords and used, though
\* the registry's first template is another
C14_Witness ==
    /\ epc = "done"
    /\ identified = None
    /\ matched # None
    /\ result.extraction_method = "template"
    /\ Len(templates) = 2
    /\ matched[1] = templates[2].tpl
    /\ text.found = PatternFields

\* the amount string as the claim cleans it: spaces out, then the grouping
\* character out and the decimal character a '.'
CleanedAmount(s, sep) ==
    LET stripped == SelectSeq(s, LAMBDA c : c \notin {" ", "nbsp"})
        grouping == IF sep = "." THEN "," ELSE "."
        kept == SelectSeq(stripped, LAMBDA c : c # grouping)
    IN  [i \in DOMAIN kept |-> IF kept[i] = sep THEN "." ELSE kept[i]]

\* C15: with the separator given, _parse_number returns the number read
\* from the cleaned string, or None when that is no number, and never
\* raises; "1,234.56" with '.' and "1.234,56" with ',' give 1234.56.
C15_ParseNumber ==
    (fpc \in {"returned", "raised"} /\ fn = "_parse_number")
    => /\ fpc = "returned"
       /\ fret = ParseFloat(CleanedAmount(farg.num_str, farg.decimal_separator))
       /\ (farg.num_str = Str1234c56 /\ farg.decimal_separator = ".")
            => fret = Some([n |-> 123456, scale |-> 2])
       /\ (farg.num_str = Str1234d56 /\ farg.decimal_separator = ",")
            => fret = Some([n |-> 123456, scale |-> 2])
       /\ (\E i \in DOMAIN farg.num_str : farg.num_str[i] = "x") => fret = None

\* "1.234,56" with ',' as the decimal separator has given 1234.56
C15_Witness ==
    /\ fpc = "returned"
    /\ fn = "_parse_number"
    /\ farg.num_str = Str1234d56
    /\ farg.decimal_separator = ","
    /\ fret = Some([n |-> 123456, scale |-> 2])

\* the strings the claim reads in the German way: one '.' and one ',' with
\* the comma last, or separators of one class only
GermanStyle(s) ==
    \/ /\ Count(s, ".") = 1
       /\ Count(s, ",") = 1
       /\ \A i, j \in DOMAIN s : (s[i] = "." /\ s[j] = ",") => i < j
    \/ Count(s, ".") = 0
    \/ Count(s, ",") = 0

\* the German reading: '.' groups thousands and is removed, ',' is the
\* decimal separator
GermanReading(s) ==
    LET kept == SelectSeq(s, LAMBDA c : c \notin {" ", "."})
    IN  ParseFloat([i \in DOMAIN kept |-> IF kept[i] = "," THEN "." ELSE kept[i]])

\* C16: without a separator given, a German-style amount string that reads
\* as a number in the German way is parsed to that number; "1.234,56" gives
\* 1234.56.
C16_GermanHeuristic ==
    (fpc \in {"returned", "raised"} /\ fn = "_parse_german_number")
    => /\ (GermanStyle(farg) /\ GermanReading(farg) # None)
            => (fpc = "returned" /\ Some(fret) = GermanReading(farg))
       /\ farg = Str1234d56 => (fpc = "returned" /\ fret = [n |-> 123456, scale |-> 2])

\* the number of components of a date string: one more than its separators
Components(s) == 1 + Cardinality({i \in DOMAIN s : s[i] \in DateSeparators})

\* C17: _normalize_date raises for no string: it returns a string, whether
\* the input has three components or not, and also when the year are two
\* characters that are no digits.
C17_NormalizeDateNeverFails ==
    (fpc \in {"returned", "raised"} /\ fn = "_normalize_date")
    => /\ fpc = "returned"
       /\ fret \in Seq(Digits \cup DateSeparators \cup {"x"})

\* D s M s Y with one or two digits for day and month, two or four for the
\* year, and one separator s
WellFormedDates ==
    {d \o <<s>> \o m \o <<s>> \o y :
        d \in {p \in DayParts : ParseInt(p) # None},
        m \in {p \in DayParts : ParseInt(p) # None},
        s \in DateSeparators,
        y \in {p \in YearParts : ParseInt(p) # None /\ Len(p) \in {2, 4}}}

\* C18: on a well-formed date, normalizing what _normalize_date returned
\* gives it again.
C18_NormalizeDateIdempotent ==
    (fpc \in {"returned", "raised"} /\ fn = "_normalize_date" /\ farg \in WellFormedDates)
    => /\ fpc = "returned"
       /\ ~NormalizeDate(fret).raised
       /\ NormalizeDate(fret).value = fret

\* a date with '/', one-digit day and two-digit year was normalized to
\* another string
C18_Witness ==
    /\ fpc = "returned"
    /\ fn = "_normalize_date"
    /\ farg = <<"1", "/", "0", "1", "/", "4", "9">>
    /\ fret # farg
    /\ NormalizeDate(fret).value = fret

\* C19: on a well-formed date, day and month come out with two digits, a
\* year yy comes out as 20yy when yy < 50 and as 19yy when yy >= 50, and a
\* year of four digits as it is; "01.01.49" gives "01.01.2049" and
\* "01.01.50" gives "01.01.1950".
C19_YearPivot ==
    (fpc = "returned" /\ fn = "_normalize_date")
    => /\ \A d \in DayParts, m \in DayParts, y \in YearParts, s \in DateSeparators :
            (farg = d \o <<s>> \o m \o <<s>> \o y /\ farg \in WellFormedDates)
            => fret = (IF Len(d) = 1 THEN <<"0">> \o d ELSE d) \o <<".">>
                      \o (IF Len(m) = 1 THEN <<"0">> \o m ELSE m) \o <<".">>
                      \o (IF Len(y) = 4 THEN y
                          ELSE IF DigitsValue(y) < 50 THEN <<"2", "0">> \o y
                          ELSE <<"1", "9">> \o y)
       /\ farg = <<"0", "1", ".", "0", "1", ".", "4", "9">>
            => fret = <<"0", "1", ".", "0", "1", ".", "2", "0", "4", "9">>
       /\ farg = <<"0", "1", ".", "0", "1", ".", "5", "0">>
            => fret = <<"0", "1", ".", "0", "1", ".", "1", "9", "5", "0">>

\* "1.1.50" was normalized to "01.01.1950"
C19_Witness ==
    /\ fpc = "returned"
    /\ fn = "_normalize_date"
    /\ farg = <<"1", ".", "1", ".", "5", "0">>
    /\ fret = <<"0", "1", ".", "0", "1", ".", "1", "9", "5", "0">>

\* the texts a pattern's matches give, in order, up to a match without group 1
RECURSIVE GivenBy(_)
GivenBy(matches) ==
    IF matches = <<>> \/ Head(matches) = NoGroup THEN <<>>
    ELSE <<Strip(Head(matches))>> \o GivenBy(Tail(matches))

\* all of them, in the order of the patterns
RECURSIVE AllGiven(_)
AllGiven(patterns) ==
    IF patterns = <<>> THEN <<>>
    ELSE (IF Head(patterns).kind = "ok" THEN GivenBy(Head(patterns).matches) ELSE <<>>)
         \o AllGiven(Tail(patterns))

FirstAt(seq, x) == CHOOSE i \in DOMAIN seq : seq[i] = x /\ \A j \in 1..(i - 1) : seq[j] # x

ClaimedContribution(f) ==
    IF ~f.present THEN 0
    ELSE IF f.recipient THEN -4
    ELSE IF f.top THEN 4
    ELSE IF f.ctx THEN 5
    ELSE 1

RECURSIVE ClaimedScore(_, _)
ClaimedScore(kws, txt) ==
    IF kws = <<>> THEN 0
    ELSE ClaimedContribution(txt.kw[Head(kws)]) + ClaimedScore(Tail(kws), txt)

\* C21: a keyword the text has adds 1, and -5 and no bonus in a recipient
\* context; otherwise at most one bonus, +3 in the top section, else +4 in an
\* issuer context: each keyword adds one of -4, 1, 4, 5, and the normalized
\* score is the sum of these times matched / total.
C21_Contributions ==
    FromScoredSearch =>
        \A i \in DOMAIN templates :
            LET kws == KeywordsOf(templates[i].tpl)
            IN  /\ \A n \in DOMAIN kws :
                      text.kw[kws[n]].present =>
                          ScoreFrom(<<kws[n]>>, text, 0, 0).score \in {-4, 1, 4, 5}
                /\ RawScore(templates, i, text).score = ClaimedScore(kws, text)
                /\ NormNum(templates, i, text)
                     = ClaimedScore(kws, text) * Cardinality(MatchedKeywords(templates, i, text))

\* entry i of the registry has the greatest normalized score of the search
IsMaximal(reg, i, txt) ==
    \A j \in Scored(reg, txt) :
        NormNum(reg, j, txt) * NormDen(reg, i) <= NormNum(reg, i, txt) * NormDen(reg, j)

\* C22: of the templates with the greatest normalized score the scored
\* search returns the first in the registry's order: every entry before the
\* returned one has a strictly smaller score, none has a greater one.
C22_TieBreak ==
    (FromScoredSearch /\ matched # None)
    => \E i \in Scored(templates, text) :
          /\ matched[1] = templates[i].tpl
          /\ IsMaximal(templates, i, text)
          /\ \A j \in Scored(templates, text) : j < i => ~IsMaximal(templates, j, text)

\* two templates with different keywords have the same greatest score, and
\* the first of them was returned
C22_Witness ==
    /\ FromScoredSearch
    /\ matched # None
    /\ Len(templates) = 2
    /\ IsMaximal(templates, 1, text)
    /\ IsMaximal(templates, 2, text)
    /\ {1, 2} \subseteq Scored(templates, text)
    /\ KeywordsOf(templates[1].tpl) # KeywordsOf(templates[2].tpl)
    /\ matched[1] = templates[1].tpl

\* the template has no keyword list, or an empty one
NoKeywords(tpl) == "keywords" \notin tpl.has \/ tpl.keywords = <<>>

\* C23: a template without keywords is not what the scored search returns,
\* for any text: when match returns such a template, it is the one of the
\* direct hit of the identified issuer.
C23_EmptyKeywords ==
    (epc = "matched" /\ matched # None /\ NoKeywords(matched[1]))
    => /\ ~FromScoredSearch
       /\ IssuerGiven(identified)
       /\ \E i \in DOMAIN templates :
             /\ templates[i].tpl = matched[1]
             /\ DirectTest(templates[i].key, Lower(identified[1]))

\* the scored search went over a template without keywords, for a text that
\* has every keyword in its top section, and returned the template after it
C23_Witness ==
    /\ FromScoredSearch
    /\ Len(templates) = 2
    /\ NoKeywords(templates[1].tpl)
    /\ \A k \in Keywords : text.kw[k].top /\ ~text.kw[k].recipient
    /\ matched = Some(templates[2].tpl)

\* the pattern's evaluation fails: it is malformed or no string, it has no
\* capture group, or group 1 took no part in the first match
PatternFails(pattern) ==
    \/ pattern.kind \in {"malformed", "nonstring"}
    \/ pattern.kind = "nogroup" /\ pattern.matches # <<>>
    \/ pattern.kind = "ok" /\ pattern.matches # <<>> /\ Head(pattern.matches) = NoGroup

\* what the first match's group 1 holds, trimmed, for a pattern that is
\* supplied, does not fail and matches
FirstCapture(pattern) == Strip(Head(pattern.matches))

\* C24: _extract_field never raises, and returns None when no pattern is
\* supplied, when the pattern does not match, when the first match's group 1
\* is empty after trimming and when the pattern's evaluation fails, and the
\* trimmed group 1 of the first match otherwise; _extract_amount_field never
\* raises and returns None in these cases and when the number does not
\* parse, and the parsed number otherwise.
C24_FieldsNeverRaise ==
    /\ (fpc \in {"returned", "raised"} /\ fn = "_extract_field")
       => /\ fpc = "returned"
          /\ IF \/ farg.kind \in {"none", "empty"}
                \/ farg.matches = <<>>
                \/ PatternFails(farg)
                \/ FirstCapture(farg) = <<>>
             THEN fret = None
             ELSE fret = Some(FirstCapture(farg))
    /\ (fpc \in {"returned", "raised"} /\ fn = "_extract_amount_field")
       => /\ fpc = "returned"
          /\ IF \/ farg.pattern.kind \in {"none", "empty"}
                \/ farg.pattern.matches = <<>>
                \/ PatternFails(farg.pattern)
                \/ ParseNumber(FirstCapture(farg.pattern), farg.decimal_separator) = None
             THEN fret = None
             ELSE fret = ParseNumber(FirstCapture(farg.pattern), farg.decimal_separator)

\* a pattern without a capture group matched and the call returned None
C24_Witness ==
    /\ fpc = "returned"
    /\ fn = "_extract_field"
    /\ farg.kind = "nogroup"
    /\ farg.matches # <<>>
    /\ fret = None

\* re.search gives a match for the pattern
PatternMatches(pattern) ==
    pattern.kind \in {"ok", "nogroup"} /\ pattern.matches # <<>>

\* group 1 of the pattern's first match holds a string
HasCapture(pattern) ==
    PatternMatches(pattern) /\ pattern.kind = "ok" /\ Head(pattern.matches) # NoGroup

\* the first pattern, in order, that matches
FirstMatching(patterns) ==
    CHOOSE i \in DOMAIN patterns :
        PatternMatches(patterns[i]) /\ \A j \in 1..(i - 1) : ~PatternMatches(patterns[j])

\* C25: _extract_date_field returns None when no pattern matches; otherwise
\* the first pattern that matches decides: the result is what this pattern
\* gives alone, later patterns are not consulted, and for the string it
\* captured it is the date of the first format, in order, that parses it,
\* as DD.MM.YYYY, or else what _normalize_date gives for it.
C25_DateField ==
    (fpc \in {"returned", "raised"} /\ fn = "_extract_date_field")
    => /\ fpc = "returned"
       /\ IF \A i \in DOMAIN farg.patterns : ~PatternMatches(farg.patterns[i])
          THEN fret = None
          ELSE LET p == farg.patterns[FirstMatching(farg.patterns)]
                   c == FirstCapture(p)
                   parsed == FirstParse(c, farg.date_formats)
               IN  /\ fret = ExtractDateField(<<p>>, farg.date_formats).value
                   /\ HasCapture(p) =>
                        IF parsed # None THEN fret = Some(Strftime(parsed[1]))
                        ELSE /\ ~NormalizeDate(c).raised
                             /\ fret = Some(NormalizeDate(c).value)

\* the step is in the retry path of an extract call: the first match gave
\* none, auto_generate is set and an issuer was identified
InRetryPath == epc = "nomatch" /\ autoGen /\ firstMatch = None /\ IssuerGiven(identified)

\* C26: a step of an extract call leaves the registry and the template
\* directory as they are, unless it is the retry path of a call with
\* auto_generate whose first match gave none; the registry changes only in
\* reload's assignment and in that path.
C26_ExtractFrame ==
    [][/\ extVars' # extVars
            => \/ templates' = templates /\ storage' = storage /\ dirExists' = dirExists
               \/ InRetryPath
       /\ templates' # templates
            => \/ rpc = "install" /\ rpc' = "idle"
               \/ InRetryPath]_vars

\* a call with auto_generate whose first match was a template has returned,
\* all its reads having seen the registry as it is, while the directory
\* holds a file that the registry has not
C26_Witness ==
    /\ epc = "done"
    /\ autoGen
    /\ firstMatch # None
    /\ result.extraction_method = "template"
    /\ reads # <<>>
    /\ \A i \in DOMAIN reads : reads[i].seen = templates
    /\ LoadTemplates(dirExists, storage).reg # templates

\* the templates of a registry
TemplatesOf(reg) == {reg[i].tpl : i \in DOMAIN reg}

\* C27: all reads of the registry one extract call makes see the same
\* registry, also when a reload runs meanwhile: the template the call has
\* matched is one of the registry every read saw, and the
\* available_templates of a none result are the keys of the registry the
\* match went over.
C27_OneSnapshot ==
    /\ \A i, j \in DOMAIN reads : reads[i].seen = reads[j].seen
    /\ (epc \in {"extract", "done"} /\ matched # None)
         => \A i \in DOMAIN reads : matched[1] \in TemplatesOf(reads[i].seen)
    /\ (epc = "done" /\ matched = None)
         => /\ Len(reads) >= 2
            /\ result.available_templates = Some(KeyList(reads[Len(reads) - 1].seen))

\* every key of the registry is the lower-case issuer of its template, and
\* no key is there twice
KeyedByIssuer(reg) ==
    /\ \A i \in DOMAIN reg : reg[i].key = Lower(reg[i].tpl.issuer)
    /\ \A i, j \in DOMAIN reg : i # j => reg[i].key # reg[j].key

\* C28: in the registry, as every load and reload leaves it, each key is the
\* lower-case form of the issuer of its template and there is one template
\* for a lower-case issuer; of the files of the directory that have the same
\* lower-case issuer the load indexes the one it reads last.
C28_KeyIsLowerIssuer ==
    /\ KeyedByIssuer(templates)
    /\ rpc = "install" =>
         /\ KeyedByIssuer(rlocal)
         /\ \A n \in DOMAIN storage :
               Indexable(storage[n]) =>
                  \E i \in DOMAIN rlocal :
                     /\ rlocal[i].key = Lower(storage[n].issuer)
                     /\ rlocal[i].tpl = storage[LastOf(storage, rlocal[i].key)]

\* a reload over two files whose issuers differ in case only has replaced
\* the registry: it holds the second file alone, under the lower-case key
C28_Witness ==
    /\ rpc = "idle"
    /\ rold # templates
    /\ Len(storage) = 2
    /\ Indexable(storage[1])
    /\ Indexable(storage[2])
    /\ storage[1].issuer # storage[2].issuer
    /\ Lower(storage[1].issuer) = Lower(storage[2].issuer)
    /\ Len(templates) = 1
    /\ templates[1].tpl = storage[2]
    /\ templates[1].key # templates[1].tpl.issuer

\* C29: in every result extract returns, extraction_method is "template" or
\* "none"; it is "template" exactly when template_used is there, and then
\* template_used and the issuer field are the issuer of the matched
\* template, which the registry held when the match read it; it is "none"
\* exactly when template_used is None, and then the confidence is 0.0.
C29_ResultConsistent ==
    epc = "done"
    => /\ result.extraction_method \in {"template", "none"}
       /\ result.extraction_method = "template" <=> result.template_used # None
       /\ result.extraction_method = "none" <=> result.template_used = None
       /\ result.extraction_method = "template"
            => /\ matched # None
               /\ result.template_used = Some(matched[1].issuer)
               /\ result.rechnungssteller = Some(matched[1].issuer)
               /\ reads # <<>>
               /\ matched[1] \in TemplatesOf(Last(reads).seen)
       /\ result.extraction_method = "none" => result.confidence = 0

\* a call has returned a template result whose template_used is not the
\* registry key, after a reload has taken the template out of the registry
C29_Witness ==
    /\ epc = "done"
    /\ result.extraction_method = "template"
    /\ result.template_used # Some(Lower(matched[1].issuer))
    /\ matched[1] \notin TemplatesOf(templates)
    /\ result.confidence > 0

\* how often the running extract call has made the collaborator call c
TimesCalled(c) == Cardinality({i \in DOMAIN calls : calls[i] = c})

====
